---------------------------- MODULE Spec2Model ----------------------------
(***************************************************************************)
(* A model of the UET prospectus assistant (src/backend/agent.py).         *)
(*                                                                         *)
(* Python strings are TLA+ strings.  TLC evaluates Len, SubSeq, Head,      *)
(* Tail and \o on strings character by character, so substring tests,      *)
(* lower(), strip() and split() are computed on the characters, as the     *)
(* code computes them.  Python lists are sequences, sets are sets and      *)
(* dicts are functions.  The model is restricted to ASCII text.            *)
(***************************************************************************)
EXTENDS Integers, Sequences, FiniteSets, TLC

VARIABLES
    \* one invocation of process_query per process p
    pc,             \* pc[p]: where the invocation is
    raw_query,      \* the argument process_query was called with
    user_query,     \* process_query's user_query, trimmed
    response,       \* run_enhanced_agent's response: the decision of the LLM
    site,           \* the call of search_prospectus being served
    query,          \* search_prospectus's parameter
    queries,        \* search_prospectus's queries: the expansion
    qi,             \* the index in queries of the next q of the retrieval loop
    all_docs,       \* search_prospectus's all_docs
    seen_content,   \* search_prospectus's seen_content
    scored_docs,    \* search_prospectus's scored_docs, sorted once ranked
    top_docs,       \* search_prospectus's top_docs
    search_results, \* what search_prospectus returned
    prompt,         \* the prompt of the pending call of the LLM
    answer,         \* what process_query returned
    \* what the invocation asked of the vector index and of the LLM, with
    \* what came back
    vs_log,
    llm_log,
    \* the vector index and the LLM: what each has answered to each request
    \* since the process started
    vs_memo,
    llm_memo,
    \* the invocations completed, and the answer of the first one per query
    runs,
    first_answer,
    \* a function of agent.py applied on its own
    fn_called,      \* which function was applied to fn_query: "none" before
    fn_query,       \* the string a function of agent.py is applied to
    fn_doc,         \* the document scored for fn_query
    fn_queries,     \* the list expand_query builds before its return
    fn_expanded,    \* what expand_query returned
    fn_related,     \* what is_uet_related returned
    fn_score,       \* what the scoring loop gave fn_doc for fn_query
    \* one request to the /chat endpoint of main.py
    chat_pc,        \* where the request is
    body,           \* the JSON body posted
    message,        \* request.message, as ChatRequest validated it
    exc,            \* the exception that left process_query
    http,           \* the HTTP response
    \* one run of ingest_data of ingest.py
    ingest_pc,      \* where the run is
    loaded_docs,    \* ingest_data's docs: the pages the loader returned
    splits,         \* the chunks the text splitter returned, with metadata
    ingest_i,       \* the index of the metadata loop
    index_docs      \* the documents written to the vector index

frame_vars == << pc, raw_query, user_query, response, site, query, queries, qi,
                 all_docs, seen_content, scored_docs, top_docs, search_results,
                 prompt, answer, vs_log, llm_log >>

world_vars == << vs_memo, llm_memo, runs, first_answer >>

fn_vars == << fn_called, fn_query, fn_doc, fn_queries, fn_expanded, fn_related,
              fn_score >>

chat_vars == << chat_pc, body, message, exc, http >>

ingest_vars == << ingest_pc, loaded_docs, splits, ingest_i, index_docs >>

\* What the steps of process_query leave alone.
other_vars == << fn_vars, chat_vars, ingest_vars >>

vars == << frame_vars, world_vars, other_vars >>

(***************************************************************************)
(* Python string primitives                                                *)
(***************************************************************************)

\* Characters str.strip(), str.split() and the regex class \s treat as space.
Whitespace == {" ", "\n", "\t", "\r"}

UpperToLower ==
    [c \in {"A","B","C","D","E","F","G","H","I","J","K","L","M","N","O","P",
            "Q","R","S","T","U","V","W","X","Y","Z"} |->
       CASE c = "A" -> "a" [] c = "B" -> "b" [] c = "C" -> "c" [] c = "D" -> "d"
         [] c = "E" -> "e" [] c = "F" -> "f" [] c = "G" -> "g" [] c = "H" -> "h"
         [] c = "I" -> "i" [] c = "J" -> "j" [] c = "K" -> "k" [] c = "L" -> "l"
         [] c = "M" -> "m" [] c = "N" -> "n" [] c = "O" -> "o" [] c = "P" -> "p"
         [] c = "Q" -> "q" [] c = "R" -> "r" [] c = "S" -> "s" [] c = "T" -> "t"
         [] c = "U" -> "u" [] c = "V" -> "v" [] c = "W" -> "w" [] c = "X" -> "x"
         [] c = "Y" -> "y" [] c = "Z" -> "z"]

LowerChar(c) == IF c \in DOMAIN UpperToLower THEN UpperToLower[c] ELSE c

\* s.lower(): each character mapped, the halves of s one after the other
RECURSIVE lower(_)
lower(s) ==
    IF Len(s) = 0 THEN ""
    ELSE IF Len(s) = 1 THEN LowerChar(s)
    ELSE LET h == Len(s) \div 2
         IN  lower(SubSeq(s, 1, h)) \o lower(SubSeq(s, h + 1, Len(s)))

\* t in s, for a non-empty t
Contains(s, t) ==
    \E i \in 1..(Len(s) - Len(t) + 1) : SubSeq(s, i, i + Len(t) - 1) = t

\* s.startswith(t)
startswith(s, t) == Len(t) <= Len(s) /\ SubSeq(s, 1, Len(t)) = t

\* The positions of s that hold a character outside chars.
Outside(s, chars) == {i \in 1..Len(s) : SubSeq(s, i, i) \notin chars}

\* s.strip(chars) for a set of characters: s from its first to its last
\* character outside chars
stripChars(s, chars) ==
    LET keep == Outside(s, chars)
    IN  IF keep = {} THEN ""
        ELSE SubSeq(s, CHOOSE i \in keep : \A j \in keep : i <= j,
                       CHOOSE i \in keep : \A j \in keep : i >= j)

\* s.strip()
strip(s) == stripChars(s, Whitespace)

\* The first position at or after i of s that holds whitespace, Len(s) + 1
\* when there is none.
NextSpace(s, i) ==
    LET at == {j \in i..Len(s) : SubSeq(s, j, j) \in Whitespace}
    IN  IF at = {} THEN Len(s) + 1 ELSE CHOOSE j \in at : \A k \in at : j <= k

\* The first position at or after i of s that holds no whitespace, Len(s) + 1
\* when there is none: where a greedy \s* that starts at i stops.
SkipSpace(s, i) ==
    LET at == {j \in i..Len(s) : SubSeq(s, j, j) \notin Whitespace}
    IN  IF at = {} THEN Len(s) + 1 ELSE CHOOSE j \in at : \A k \in at : j <= k

\* s.split(): the maximal runs of non-space characters, in order
RECURSIVE SplitFrom(_, _)
SplitFrom(s, i) ==
    LET b == SkipSpace(s, i)
        e == NextSpace(s, b)
    IN  IF b > Len(s) THEN << >>
        ELSE << SubSeq(s, b, e - 1) >> \o SplitFrom(s, e)

split(s) == SplitFrom(s, 1)

\* " ".join(words)
RECURSIVE join(_)
join(words) ==
    IF words = << >> THEN ""
    ELSE IF Len(words) = 1 THEN words[1]
    ELSE words[1] \o " " \o join(Tail(words))

Range(f) == {f[i] : i \in DOMAIN f}

\* any(w in s for w in words)
AnyIn(words, s) == \E i \in DOMAIN words : Contains(s, words[i])

\* list(dict.fromkeys(xs)): the first occurrence of each element, in order
dict_fromkeys(xs) ==
    LET keep == {i \in DOMAIN xs : \A j \in 1..(i - 1) : xs[j] # xs[i]}
        RECURSIVE Pick(_)
        Pick(i) == IF i > Len(xs) THEN << >>
                   ELSE IF i \in keep THEN << xs[i] >> \o Pick(i + 1)
                   ELSE Pick(i + 1)
    IN  Pick(1)

\* xs[:n]
Take(xs, n) == SubSeq(xs, 1, IF Len(xs) < n THEN Len(xs) ELSE n)

(***************************************************************************)
(* Query expansion: expand_query                                           *)
(***************************************************************************)

\* queries[:4]
MaxExpansions == 4

FacultyWords == << "chairperson", "chair person", "head of department", "hod",
                   "dean", "faculty", "professor", "lecturer" >>

ExpandDepartments == << "mathematics", "computer science", "electrical",
                        "mechanical", "civil", "chemical", "industrial",
                        "architecture", "city planning", "regional planning" >>

ProgramWords == << "m.sc", "msc", "phd", "bachelor", "master", "program",
                   "degree" >>

ExpandPrograms == << "artificial intelligence", "ai", "mining engineering",
                     "transportation", "geological engineering",
                     "geotechnical" >>

AdmissionWords == << "admission", "apply", "eligibility", "requirement" >>

\* The index of the last term of the list that occurs in s, 0 when none
\* does.
LastMatch(terms, s) ==
    IF AnyIn(terms, s)
    THEN CHOOSE i \in DOMAIN terms :
            /\ Contains(s, terms[i])
            /\ \A j \in (i + 1)..Len(terms) : ~Contains(s, terms[j])
    ELSE 0

\* for x in terms: if x in s: ...; break  -- the index of the first term of
\* the list that occurs in s, 0 when none does
FirstMatch(terms, s) ==
    IF AnyIn(terms, s)
    THEN CHOOSE i \in DOMAIN terms :
            /\ Contains(s, terms[i])
            /\ \A j \in 1..(i - 1) : ~Contains(s, terms[j])
    ELSE 0

\* What the faculty/leadership block appends.
FacultyQueries(original_query, query_lower) ==
    IF AnyIn(FacultyWords, query_lower)
    THEN LET d == FirstMatch(ExpandDepartments, query_lower)
         IN  << "faculty list " \o original_query,
                "staff members " \o original_query >>
             \o (IF d = 0 THEN << >>
                 ELSE << ExpandDepartments[d] \o " department faculty",
                         ExpandDepartments[d] \o " chairperson head" >>)
    ELSE << >>

\* What the degree/program block appends.
ProgramQueries(original_query, query_lower) ==
    IF AnyIn(ProgramWords, query_lower)
    THEN LET g == FirstMatch(ExpandPrograms, query_lower)
         IN  << "program offered by department " \o original_query >>
             \o (IF g = 0 THEN << >>
                 ELSE << ExpandPrograms[g] \o " program department" >>)
    ELSE << >>

\* What the admission block appends.
AdmissionQueries(original_query, query_lower) ==
    IF AnyIn(AdmissionWords, query_lower)
    THEN << "admission requirements " \o original_query,
            "eligibility criteria " \o original_query >>
    ELSE << >>

\* What the transportation block appends.
TransportationQueries(query_lower) ==
    IF Contains(query_lower, "transportation")
    THEN << "civil engineering transportation",
            "transportation engineering department" >>
    ELSE << >>

\* What the geological/geotechnical block appends.
GeoQueries(query_lower) ==
    IF Contains(query_lower, "geological") \/ Contains(query_lower, "geotechnical")
    THEN << "mining geological engineering",
            "civil geotechnical engineering" >>
    ELSE << >>

\* The list `queries` of expand_query when it reaches its return statement.
expand_candidates(original_query) ==
    LET query_lower == lower(original_query)
    IN  << original_query >>
        \o FacultyQueries(original_query, query_lower)
        \o ProgramQueries(original_query, query_lower)
        \o AdmissionQueries(original_query, query_lower)
        \o TransportationQueries(query_lower)
        \o GeoQueries(query_lower)

\* Mutant of expand_return: the cut without the deduplication.
expand_return_no_dedup(candidates) == Take(candidates, MaxExpansions)

\* return list(dict.fromkeys(queries))[:4]
expand_return(candidates) == Take(dict_fromkeys(candidates), MaxExpansions)

expand_query(original_query) == expand_return(expand_candidates(original_query))

(***************************************************************************)
(* Guardrail: is_uet_related                                               *)
(***************************************************************************)

\* len(query_lower.split()) <= 3
MaxGreetingTokens == 3

greetings == << "hi", "hello", "hey", "greetings", "good morning",
                "good evening", "thanks", "thank you" >>

uet_keywords ==
    << "uet", "university of engineering", "lahore", "taxila", "faisalabad",
       "department", "computer", "electrical", "mechanical", "civil", "chemical",
       "industrial", "architecture", "petroleum", "biomedical", "environmental",
       "textile", "metallurgy", "mining", "aerospace", "mathematics", "physics",
       "transportation", "geological", "geotechnical", "city planning",
       "regional planning", "course", "admission", "faculty", "fee", "program",
       "degree", "bachelor", "master", "phd", "msc", "bs", "engineering",
       "syllabus", "curriculum", "professor", "chairperson", "dean",
       "head of department", "hod", "scholarship", "campus", "hostel", "library",
       "artificial intelligence" >>

\* Mutant of is_greeting: the greeting accepted whatever the length.
is_greeting_any_length(query_lower) ==
    \E i \in DOMAIN greetings : startswith(strip(query_lower), greetings[i])

\* The greeting test of is_uet_related.
is_greeting(query_lower) ==
    /\ \E i \in DOMAIN greetings : startswith(strip(query_lower), greetings[i])
    /\ Len(split(query_lower)) <= MaxGreetingTokens

is_uet_related(q) ==
    LET query_lower == lower(q)
    IN  is_greeting(query_lower) \/ AnyIn(uet_keywords, query_lower)

(***************************************************************************)
(* Retrieval and re-ranking: search_prospectus                             *)
(***************************************************************************)

\* search_kwargs of the retriever: "k": 4, "fetch_k": 15
RetrieverK == 4
RetrieverFetchK == 15
\* "lambda_mult": 0.5, in tenths
RetrieverLambdaTenths == 5

\* doc.page_content[:100]
PrefixLen == 100

\* scored_docs[:6]
TopDocs == 6

\* d.get(key, default) for a dict d
dict_get(d, key, default) == IF key \in DOMAIN d THEN d[key] ELSE default

\* Mutant of content_hash: the hash of the whole text.
content_hash_whole(doc) == doc.page_content

\* hash(doc.page_content[:100]): the key of the deduplication.  The model
\* takes str hashes to be free of collisions, so the hash of a prefix stands
\* for the prefix.
content_hash(doc) == Take(doc.page_content, PrefixLen)

\* The inner loop over the docs one retriever call returned: `st` holds
\* all_docs and seen_content, and each doc whose hash is new is appended.
RECURSIVE Deduplicate(_, _)
Deduplicate(st, docs) ==
    IF docs = << >> THEN st
    ELSE LET doc == Head(docs)
             h == content_hash(doc)
         IN  IF h \notin st.seen_content
             THEN Deduplicate([all_docs |-> Append(st.all_docs, doc),
                               seen_content |-> st.seen_content \cup {h}],
                              Tail(docs))
             ELSE Deduplicate(st, Tail(docs))

\* Sum of f[i] over i in 1..n, for a sequence of numbers f
RECURSIVE SumSeq(_)
SumSeq(f) == IF f = << >> THEN 0 ELSE Head(f) + SumSeq(Tail(f))

\* for i in range(len(words) - length + 1): ... score += length * 10
PhraseScoreOfLength(words, length, content_lower) ==
    SumSeq([i \in 1..(IF Len(words) - length + 1 > 0
                      THEN Len(words) - length + 1 ELSE 0) |->
              IF Contains(content_lower, join(SubSeq(words, i, i + length - 1)))
              THEN length * 10 ELSE 0])

\* Mutant of PhraseScore: the lengths tried from 4 down, and the first that
\* matches is the only one counted.
PhraseScoreFirstLength(query_lower, content_lower) ==
    LET words == split(query_lower)
        s4 == PhraseScoreOfLength(words, 4, content_lower)
        s3 == PhraseScoreOfLength(words, 3, content_lower)
    IN  IF s4 > 0 THEN s4
        ELSE IF s3 > 0 THEN s3
        ELSE PhraseScoreOfLength(words, 2, content_lower)

\* for length in [4, 3, 2]: ...
PhraseScore(query_lower, content_lower) ==
    LET words == split(query_lower)
    IN  PhraseScoreOfLength(words, 4, content_lower)
        + PhraseScoreOfLength(words, 3, content_lower)
        + PhraseScoreOfLength(words, 2, content_lower)

\* len(query_keywords.intersection(doc_words)) * 2
KeywordScore(query_lower, content_lower) ==
    Cardinality(Range(split(query_lower)) \cap Range(split(content_lower))) * 2

FacultyQueryWords == << "chairperson", "faculty", "head", "dean", "professor" >>

faculty_terms == << "dr.", "prof.", "chairperson", "head of department",
                    "professor", "lecturer" >>

\* the boost for faculty-related terms in faculty queries
FacultyBoost(query_lower, content_lower) ==
    IF AnyIn(FacultyQueryWords, query_lower)
    THEN SumSeq([i \in DOMAIN faculty_terms |->
                   IF Contains(content_lower, faculty_terms[i]) THEN 15 ELSE 0])
    ELSE 0

dept_words == << "mathematics", "computer", "electrical", "civil", "mechanical",
                 "mining" >>

\* the boost for a department name match
DepartmentBoost(query_lower, content_lower, doc) ==
    LET dept_meta == lower(dict_get(doc.metadata, "departments", ""))
    IN  SumSeq([i \in DOMAIN dept_words |->
                  IF /\ Contains(query_lower, dept_words[i])
                     /\ Contains(content_lower \o " " \o dept_meta, dept_words[i])
                  THEN 10 ELSE 0])

\* The score the loop body of step 3 gives doc for `query`.
doc_score(q, doc) ==
    LET query_lower == lower(q)
        content_lower == lower(doc.page_content)
    IN  PhraseScore(query_lower, content_lower)
        + KeywordScore(query_lower, content_lower)
        + FacultyBoost(query_lower, content_lower)
        + DepartmentBoost(query_lower, content_lower, doc)

\* scored_docs after the scoring loop: (score, doc) pairs in all_docs order
score_docs(q, docs) ==
    [i \in DOMAIN docs |-> [score |-> doc_score(q, docs[i]), doc |-> docs[i]]]

\* Mutant of InsertByScore: the pair goes before the pairs that score as
\* much, as when an ascending sort is reversed.
RECURSIVE InsertBeforeTies(_, _)
InsertBeforeTies(sorted, pair) ==
    IF sorted = << >> THEN << pair >>
    ELSE IF Head(sorted).score > pair.score
         THEN << Head(sorted) >> \o InsertBeforeTies(Tail(sorted), pair)
         ELSE << pair >> \o sorted

\* One pair put into a list sorted by descending score, after the pairs that
\* score as much or more.
RECURSIVE InsertByScore(_, _)
InsertByScore(sorted, pair) ==
    IF sorted = << >> THEN << pair >>
    ELSE IF Head(sorted).score >= pair.score
         THEN << Head(sorted) >> \o InsertByScore(Tail(sorted), pair)
         ELSE << pair >> \o sorted

\* scored_docs.sort(reverse=True, key=lambda x: x[0]): list.sort is stable,
\* with reverse=True too
RECURSIVE sort_by_score(_)
sort_by_score(scored) ==
    IF scored = << >> THEN << >>
    ELSE InsertByScore(sort_by_score(SubSeq(scored, 1, Len(scored) - 1)),
                       scored[Len(scored)])

\* top_docs = [doc for score, doc in scored_docs[:6]]
top_docs_of(sorted) == [i \in DOMAIN Take(sorted, TopDocs) |-> sorted[i].doc]

\* str(i) for the source numbers
IntStr(i) == << "1", "2", "3", "4", "5", "6", "7", "8", "9" >>[i]

\* "\n".join(parts)
RECURSIVE join_lines(_)
join_lines(parts) ==
    IF parts = << >> THEN ""
    ELSE IF Len(parts) = 1 THEN parts[1]
    ELSE parts[1] \o "\n" \o join_lines(Tail(parts))

\* context_parts of step 4
context_parts_of(docs) ==
    [i \in DOMAIN docs |->
       "[Source " \o IntStr(i) \o " - "
       \o dict_get(docs[i].metadata, "departments", "General")
       \o " - Page " \o dict_get(docs[i].metadata, "page", "unknown") \o "]\n"
       \o strip(docs[i].page_content) \o "\n"]

\* sources of step 4
sources_of(docs) ==
    [i \in DOMAIN docs |->
       [page |-> dict_get(docs[i].metadata, "page", "unknown"),
        department |-> dict_get(docs[i].metadata, "departments", "General"),
        section |-> dict_get(docs[i].metadata, "section_type", "general_info")]]

\* The dict search_prospectus returns when no document was kept.
NotFoundResult ==
    [found |-> FALSE,
     context |-> "No relevant information found in the prospectus.",
     sources |-> << >>]

\* The dict search_prospectus returns from its except clause, for an
\* exception whose str() is `error`.
SearchErrorResult(error) ==
    [found |-> FALSE, context |-> "Search error: " \o error, sources |-> << >>]

\* The dict search_prospectus returns for the documents it kept.
FoundResult(docs) ==
    [found |-> TRUE, context |-> join_lines(context_parts_of(docs)),
     sources |-> sources_of(docs), doc_count |-> Len(docs)]

(***************************************************************************)
(* The agent: run_enhanced_agent and process_query                         *)
(***************************************************************************)

factual_indicators ==
    << "which department", "what department", "who is", "is there",
       "tell me about", "faculty", "chairperson", "dean", "head of department",
       "professor", "m.sc", "msc", "phd", "bachelor", "master", "program",
       "offers", "admission", "eligibility", "requirement", "apply",
       "how many", "list of", "what are" >>

should_search_directly(uq) == AnyIn(factual_indicators, lower(uq))

\* s holds the text t at position i, whatever the case of the letters of s.
LiteralAt(s, i, t) ==
    i + Len(t) - 1 <= Len(s) /\ lower(SubSeq(s, i, i + Len(t) - 1)) = t

\* Where the group of Action:\s*Search\s*\[(.+?)\] starts when the pattern
\* matches from position i of s up to and including the "[", 0 otherwise.
GroupStart(s, i) ==
    IF ~LiteralAt(s, i, "action:") THEN 0
    ELSE LET j == SkipSpace(s, i + 7)
         IN  IF ~LiteralAt(s, j, "search") THEN 0
             ELSE LET k == SkipSpace(s, j + 6)
                  IN  IF LiteralAt(s, k, "[") THEN k + 1 ELSE 0

\* The positions of a "]" that can close a group starting at g: (.+?) takes
\* one character at least, and any character under re.DOTALL.
GroupEnds(s, g) == {e \in (g + 1)..Len(s) : SubSeq(s, e, e) = "]"}

MinOf(S) == CHOOSE x \in S : \A y \in S : x <= y

\* re.search(r"Action:\s*Search\s*\[(.+?)\]", response,
\*           re.IGNORECASE | re.DOTALL): the leftmost match, its group the
\* shortest.  matched is FALSE when the pattern occurs nowhere.
search_action(resp) ==
    LET starts == {i \in 1..Len(resp) :
                      /\ GroupStart(resp, i) # 0
                      /\ GroupEnds(resp, GroupStart(resp, i)) # {}}
    IN  IF starts = {} THEN [matched |-> FALSE, group |-> ""]
        ELSE LET g == GroupStart(resp, MinOf(starts))
             IN  [matched |-> TRUE,
                  group |-> SubSeq(resp, g, MinOf(GroupEnds(resp, g)) - 1)]

\* The group as it was matched.
search_query_untrimmed(group) == group

\* match.group(1).strip().strip('"').strip("'")
search_query_of(group) == stripChars(stripChars(strip(group), {"\""}), {"'"})

\* The phrases without the last.
refusal_phrases_but_last == << "don't have", "cannot" >>

refusal_phrases == << "don't have", "cannot", "not sure" >>

\* The fixed replies.
MsgAskQuestion == "Please ask me a question about UET."

MsgOutOfDomain == "I'm specialized in answering questions about UET departments, programs, admissions, and facilities. Please ask me about these topics!"

MsgNotFoundDirect == "I couldn't find specific information about that in the UET prospectus. Could you rephrase your question or ask about a specific department?"

MsgNotFoundRephrase == "I couldn't find specific information about that in the UET prospectus. Could you rephrase your question?"

MsgApology == "I encountered an error while processing your question. Please try rephrasing."

\* The prompts.  A prompt is an f-string: the model keeps the expressions it
\* interpolates and names its fixed text.
DirectAnswerPrompt(uq, context) ==
    [template |-> "direct_answer", user_query |-> uq, context |-> context]

DecisionPrompt(uq) ==
    [template |-> "decision", user_query |-> uq, context |-> ""]

ActionAnswerPrompt(uq, context) ==
    [template |-> "action_answer", user_query |-> uq, context |-> context]

ForcedAnswerPrompt(uq, context) ==
    [template |-> "forced_answer", user_query |-> uq, context |-> context]

NoPrompt == [template |-> "none", user_query |-> "", context |-> ""]

\* Mutant of process_query_guard: the guardrail is not consulted.
process_query_unguarded(uq) == IF uq = "" THEN "empty" ELSE "run"

\* Which way process_query goes for the query it has trimmed.
process_query_guard(uq) ==
    IF uq = "" THEN "empty"
    ELSE IF ~is_uet_related(uq) THEN "rejected"
    ELSE "run"

\* Mutant of process_query_except: no except clause, the exception reaches
\* the caller.
process_query_no_except(error) == [pc |-> "raised", answer |-> ""]

\* The except clause of process_query: what the caller gets.
process_query_except(error) == [pc |-> "done", answer |-> MsgApology]

\* The except clause of search_prospectus: what run_enhanced_agent gets.
search_prospectus_except(error) == [caught |-> TRUE, result |-> SearchErrorResult(error)]

\* Step 2 of search_prospectus starts from an empty list and an empty set,
\* whatever an earlier call left (`old`).
new_all_docs(old) == << >>

\* The set is the module's, not the call's: a call starts from what every
\* call has seen.
module_seen_content(old) == UNION {seen_content[p] : p \in DOMAIN seen_content}

\* Mutant of new_seen_content: the set is kept from call to call.
kept_seen_content(old) == old

new_seen_content(old) == {}

\* Mutant of no_docs: the test for an empty all_docs is missing.
no_docs_unchecked(docs) == FALSE

\* if not all_docs
no_docs(docs) == docs = << >>

(***************************************************************************)
(* The vector index and the LLM                                            *)
(***************************************************************************)

Chunk(text, metadata) == [page_content |-> text, metadata |-> metadata]

\* 100 characters that open several chunks
Preamble == "UNIVERSITY OF ENGINEERING AND TECHNOLOGY LAHORE - PROSPECTUS - FACULTY OF CIVIL ENGINEERING - PAGE :"

ChunkMath ==
    Chunk("Dr. Ali Khan, Chairperson, Department of Mathematics",
          [departments |-> "General", section_type |-> "faculty", page |-> "12"])

ChunkCivil ==
    Chunk("The Dean of Civil Engineering is Prof. Sara Malik, head of department",
          [departments |-> "Civil Engineering", section_type |-> "faculty",
           page |-> "30"])

ChunkAdmission ==
    Chunk("Admission requirements for civil engineering students and the PhD program",
          [departments |-> "Civil Engineering", section_type |-> "admissions",
           page |-> "7"])

ChunkFeeA ==
    Chunk(Preamble \o " fee structure of the bachelor degree",
          [departments |-> "General", section_type |-> "fees", page |-> "40"])

\* the same first 100 characters as ChunkFeeA, another text after them
ChunkFeeB ==
    Chunk(Preamble \o " hostel charges and library",
          [departments |-> "General", section_type |-> "fees", page |-> "41"])

\* differs from ChunkFeeA in its 100th character
ChunkFeeC ==
    Chunk(SubSeq(Preamble, 1, PrefixLen - 1) \o "; fee structure of the bachelor degree",
          [departments |-> "General", section_type |-> "fees", page |-> "42"])

ChunkMining ==
    Chunk("Mining Engineering offers the M.Sc. program",
          [departments |-> "Mining Engineering,Computer Science",
           section_type |-> "curriculum", page |-> "55"])

\* a chunk that was not tagged: no departments, no page
ChunkUntagged ==
    Chunk("  The campus has a library and a hostel \n", [section_type |-> "facilities"])

\* What one call of the retriever returns: k = 4 documents at most.
VsResults ==
    { << >>,
      << ChunkMath, ChunkCivil, ChunkAdmission, ChunkFeeA >>,
      << ChunkFeeB, ChunkFeeC, ChunkMining, ChunkUntagged >> }

\* The outcomes of retriever.invoke(q): documents, or an exception.
VsOutcomes ==
    {[raised |-> FALSE, docs |-> r, error |-> ""] : r \in VsResults}
    \cup {[raised |-> TRUE, docs |-> << >>, error |-> "index unavailable"]}

\* What the LLM may write, for any prompt.
LlmContents ==
    { " Hello! How can I help you? ",
      "Action: Search [fee structure]",
      "Sure.\naction:search\n[ \"Dean of\ncivil engineering\" ] and [more]",
      "I'm Not Sure about that.",
      "Action: Search []" }

\* The outcomes of llm.invoke(prompt): a message, or an exception.
LlmOutcomes ==
    {[raised |-> FALSE, content |-> c, error |-> ""] : c \in LlmContents}
    \cup {[raised |-> TRUE, content |-> "", error |-> "model unavailable"]}

\* The index and the model answer a request they have answered before as
\* they did then.
Remembered(memo, request, outcome) ==
    \A m \in memo : m.request = request => m.outcome = outcome

Remember(memo, request, outcome) ==
    memo \cup {[request |-> request, outcome |-> outcome]}

\* A request with k and fetch_k exchanged.
VsRequestExchanged(q) ==
    [q |-> q, search_type |-> "mmr", k |-> RetrieverFetchK, fetch_k |-> RetrieverK,
     lambda_mult_tenths |-> RetrieverLambdaTenths]

\* The request of retriever.invoke(q)
VsRequest(q) ==
    [q |-> q, search_type |-> "mmr", k |-> RetrieverK, fetch_k |-> RetrieverFetchK,
     lambda_mult_tenths |-> RetrieverLambdaTenths]

(***************************************************************************)
(* The invocations of process_query                                        *)
(***************************************************************************)

Procs == {1, 2}

\* The arguments process_query is called with.
Queries ==
    { "", " \n ",
      "What's the capital of France?",
      "hi",
      " Who is the Dean of civil engineering? ",
      "mathematics chairperson",
      "admission requirements for civil engineering",
      "uet hostel",
      "Fee structure" }

NoResults == [found |-> FALSE, context |-> "", sources |-> << >>]

\* No invocation is running: process 1 waits for a query, the others are
\* not started.
FrameInit ==
    /\ pc = [p \in Procs |-> IF p = 1 THEN "idle" ELSE "off"]
    /\ raw_query = [p \in Procs |-> ""]
    /\ user_query = [p \in Procs |-> ""]
    /\ response = [p \in Procs |-> ""]
    /\ site = [p \in Procs |-> "none"]
    /\ query = [p \in Procs |-> ""]
    /\ queries = [p \in Procs |-> << >>]
    /\ qi = [p \in Procs |-> 1]
    /\ all_docs = [p \in Procs |-> << >>]
    /\ seen_content = [p \in Procs |-> {}]
    /\ scored_docs = [p \in Procs |-> << >>]
    /\ top_docs = [p \in Procs |-> << >>]
    /\ search_results = [p \in Procs |-> NoResults]
    /\ prompt = [p \in Procs |-> NoPrompt]
    /\ answer = [p \in Procs |-> ""]
    /\ vs_log = [p \in Procs |-> << >>]
    /\ llm_log = [p \in Procs |-> << >>]

\* The vector store and the LLM are created when the module is loaded.
WorldInit ==
    /\ vs_memo = {}
    /\ llm_memo = {}
    /\ runs = 0
    /\ first_answer = {}

FnIdle ==
    /\ fn_called = "off"
    /\ fn_query = ""
    /\ fn_doc = Chunk("", [page |-> "unknown"])
    /\ fn_queries = << >>
    /\ fn_expanded = << >>
    /\ fn_related = FALSE
    /\ fn_score = 0

\* No request has been posted to /chat.
ChatIdle ==
    /\ chat_pc = "off"
    /\ body = [has_message |-> FALSE, message |-> ""]
    /\ message = ""
    /\ exc = [kind |-> "none", text |-> ""]
    /\ http = [status |-> 0, detail |-> "", response |-> ""]

\* ingest_data does not run.
IngestIdle ==
    /\ ingest_pc = "off"
    /\ loaded_docs = << >>
    /\ splits = << >>
    /\ ingest_i = 0
    /\ index_docs = << >>

\* process_query(q) up to its return or to its call of run_enhanced_agent
ProcessQuery(p, inputs) ==
    /\ pc[p] = "idle"
    /\ \E q \in inputs :
         LET uq == strip(q)
             way == process_query_guard(uq)
         IN  /\ raw_query' = [raw_query EXCEPT ![p] = q]
             /\ user_query' = [user_query EXCEPT ![p] = uq]
             /\ pc' = [pc EXCEPT ![p] = IF way = "run" THEN "run_enhanced_agent"
                                        ELSE "done"]
             /\ answer' = [answer EXCEPT ![p] =
                             CASE way = "empty" -> MsgAskQuestion
                               [] way = "rejected" -> MsgOutOfDomain
                               [] OTHER -> ""]
    /\ vs_log' = [vs_log EXCEPT ![p] = << >>]
    /\ llm_log' = [llm_log EXCEPT ![p] = << >>]
    /\ UNCHANGED << response, site, query, queries, qi, all_docs, seen_content,
                    scored_docs, top_docs, search_results, prompt >>
    /\ UNCHANGED << world_vars, other_vars >>

\* search_prospectus(q) is called from `from`: steps 1 and the start of 2.
CallSearch(p, q, from) ==
    /\ site' = [site EXCEPT ![p] = from]
    /\ query' = [query EXCEPT ![p] = q]
    /\ queries' = [queries EXCEPT ![p] = expand_query(q)]
    /\ qi' = [qi EXCEPT ![p] = 1]
    /\ all_docs' = [all_docs EXCEPT ![p] = new_all_docs(all_docs[p])]
    /\ seen_content' = [seen_content EXCEPT ![p] = new_seen_content(seen_content[p])]
    /\ pc' = [pc EXCEPT ![p] = "retrieve"]

\* run_enhanced_agent(user_query) up to its first external call
RunEnhancedAgent(p) ==
    /\ pc[p] = "run_enhanced_agent"
    /\ IF should_search_directly(user_query[p])
       THEN /\ CallSearch(p, user_query[p], "direct")
            /\ UNCHANGED prompt
       ELSE /\ pc' = [pc EXCEPT ![p] = "decide"]
            /\ prompt' = [prompt EXCEPT ![p] = DecisionPrompt(user_query[p])]
            /\ UNCHANGED << site, query, queries, qi, all_docs, seen_content >>
    /\ UNCHANGED << raw_query, user_query, response, scored_docs, top_docs,
                    search_results, answer, vs_log, llm_log >>
    /\ UNCHANGED << world_vars, other_vars >>

\* One turn of the retrieval loop: retriever.invoke(q) returns documents,
\* which are deduplicated into all_docs.
Retrieve(p, outcomes) ==
    /\ pc[p] = "retrieve"
    /\ qi[p] <= Len(queries[p])
    /\ \E out \in outcomes :
         LET request == VsRequest(queries[p][qi[p]])
             st == Deduplicate([all_docs |-> all_docs[p],
                                seen_content |-> seen_content[p]], out.docs)
         IN  /\ ~out.raised
             /\ Remembered(vs_memo, request, out)
             /\ vs_memo' = Remember(vs_memo, request, out)
             /\ vs_log' = [vs_log EXCEPT ![p] =
                             Append(@, [request |-> request, outcome |-> out])]
             /\ all_docs' = [all_docs EXCEPT ![p] = st.all_docs]
             /\ seen_content' = [seen_content EXCEPT ![p] = st.seen_content]
    /\ qi' = [qi EXCEPT ![p] = @ + 1]
    /\ UNCHANGED << pc, raw_query, user_query, response, site, query, queries,
                    scored_docs, top_docs, search_results, prompt, answer,
                    llm_log >>
    /\ UNCHANGED << llm_memo, runs, first_answer, other_vars >>

\* retriever.invoke(q) raises: the except clause of search_prospectus, or,
\* were there none, the exception leaves run_enhanced_agent.
RetrieveRaises(p, outcomes) ==
    /\ pc[p] = "retrieve"
    /\ qi[p] <= Len(queries[p])
    /\ \E out \in outcomes :
         LET request == VsRequest(queries[p][qi[p]])
             handled == search_prospectus_except(out.error)
         IN  /\ out.raised
             /\ Remembered(vs_memo, request, out)
             /\ vs_memo' = Remember(vs_memo, request, out)
             /\ vs_log' = [vs_log EXCEPT ![p] =
                             Append(@, [request |-> request, outcome |-> out])]
             /\ pc' = [pc EXCEPT ![p] = IF handled.caught THEN "searched"
                                        ELSE "raising"]
             /\ search_results' = [search_results EXCEPT ![p] = handled.result]
    /\ UNCHANGED << raw_query, user_query, response, site, query, queries, qi,
                    all_docs, seen_content, scored_docs, top_docs, prompt,
                    answer, llm_log >>
    /\ UNCHANGED << llm_memo, runs, first_answer, other_vars >>

\* search_prospectus after the retrieval loop: nothing found, or steps 3
\* and 4 and the return.
Rerank(p) ==
    /\ pc[p] = "retrieve"
    /\ qi[p] > Len(queries[p])
    /\ IF no_docs(all_docs[p])
       THEN /\ search_results' = [search_results EXCEPT ![p] = NotFoundResult]
            /\ UNCHANGED << scored_docs, top_docs >>
       ELSE LET sorted == sort_by_score(score_docs(query[p], all_docs[p]))
                top == top_docs_of(sorted)
            IN  /\ scored_docs' = [scored_docs EXCEPT ![p] = sorted]
                /\ top_docs' = [top_docs EXCEPT ![p] = top]
                /\ search_results' = [search_results EXCEPT ![p] = FoundResult(top)]
    /\ pc' = [pc EXCEPT ![p] = "searched"]
    /\ UNCHANGED << raw_query, user_query, response, site, query, queries, qi,
                    all_docs, seen_content, prompt, answer, vs_log, llm_log >>
    /\ UNCHANGED << world_vars, other_vars >>

\* run_enhanced_agent returns `text`: process_query returns it.
Return(p, text) ==
    /\ pc' = [pc EXCEPT ![p] = "done"]
    /\ answer' = [answer EXCEPT ![p] = text]

\* run_enhanced_agent goes on to llm.invoke(pr).
CallLlm(p, pr) ==
    /\ pc' = [pc EXCEPT ![p] = "answer"]
    /\ prompt' = [prompt EXCEPT ![p] = pr]

\* search_prospectus has returned to the direct search of run_enhanced_agent.
DirectSearchReturns(p) ==
    /\ pc[p] = "searched"
    /\ site[p] = "direct"
    /\ IF ~search_results[p].found
       THEN Return(p, MsgNotFoundDirect) /\ UNCHANGED prompt
       ELSE CallLlm(p, DirectAnswerPrompt(user_query[p], search_results[p].context))
            /\ UNCHANGED answer
    /\ UNCHANGED << raw_query, user_query, response, site, query, queries, qi,
                    all_docs, seen_content, scored_docs, top_docs,
                    search_results, vs_log, llm_log >>
    /\ UNCHANGED << world_vars, other_vars >>

\* search_prospectus has returned to the search the LLM asked for.
ActionSearchReturns(p) ==
    /\ pc[p] = "searched"
    /\ site[p] = "action"
    /\ IF ~search_results[p].found
       THEN Return(p, MsgNotFoundRephrase) /\ UNCHANGED prompt
       ELSE CallLlm(p, ActionAnswerPrompt(user_query[p], search_results[p].context))
            /\ UNCHANGED answer
    /\ UNCHANGED << raw_query, user_query, response, site, query, queries, qi,
                    all_docs, seen_content, scored_docs, top_docs,
                    search_results, vs_log, llm_log >>
    /\ UNCHANGED << world_vars, other_vars >>

\* search_prospectus has returned to the search forced after a refusal.
ForcedSearchReturns(p) ==
    /\ pc[p] = "searched"
    /\ site[p] = "refusal"
    /\ IF search_results[p].found
       THEN CallLlm(p, ForcedAnswerPrompt(user_query[p], search_results[p].context))
            /\ UNCHANGED answer
       ELSE Return(p, response[p]) /\ UNCHANGED prompt
    /\ UNCHANGED << raw_query, user_query, response, site, query, queries, qi,
                    all_docs, seen_content, scored_docs, top_docs,
                    search_results, vs_log, llm_log >>
    /\ UNCHANGED << world_vars, other_vars >>

\* llm.invoke(prompt) answers or raises; `out` is logged and remembered.
LlmInvoke(p, out) ==
    /\ Remembered(llm_memo, prompt[p], out)
    /\ llm_memo' = Remember(llm_memo, prompt[p], out)
    /\ llm_log' = [llm_log EXCEPT ![p] =
                     Append(@, [request |-> prompt[p], outcome |-> out])]

\* The decision step: response = llm.invoke(system_prompt).content, the
\* parse of the response, and what follows up to the next external call.
Decide(p, outcomes) ==
    /\ pc[p] = "decide"
    /\ \E out \in outcomes :
         /\ ~out.raised
         /\ LlmInvoke(p, out)
         /\ response' = [response EXCEPT ![p] = out.content]
         /\ LET match == search_action(out.content)
            IN  IF match.matched
                THEN /\ CallSearch(p, search_query_of(match.group), "action")
                     /\ UNCHANGED answer
                ELSE IF AnyIn(refusal_phrases, lower(out.content))
                THEN /\ CallSearch(p, user_query[p], "refusal")
                     /\ UNCHANGED answer
                ELSE /\ Return(p, out.content)
                     /\ UNCHANGED << site, query, queries, qi, all_docs,
                                     seen_content >>
    /\ UNCHANGED << raw_query, user_query, scored_docs, top_docs,
                    search_results, prompt, vs_log >>
    /\ UNCHANGED << vs_memo, runs, first_answer, other_vars >>

\* An answer step: return llm.invoke(answer_prompt).content.strip()
Answer(p, outcomes) ==
    /\ pc[p] = "answer"
    /\ \E out \in outcomes :
         /\ ~out.raised
         /\ LlmInvoke(p, out)
         /\ Return(p, strip(out.content))
    /\ UNCHANGED << raw_query, user_query, response, site, query, queries, qi,
                    all_docs, seen_content, scored_docs, top_docs,
                    search_results, prompt, vs_log >>
    /\ UNCHANGED << vs_memo, runs, first_answer, other_vars >>

\* llm.invoke raises, in the decision step or in an answer step: the
\* exception leaves run_enhanced_agent.
LlmRaises(p, outcomes) ==
    /\ pc[p] \in {"decide", "answer"}
    /\ \E out \in outcomes :
         /\ out.raised
         /\ LlmInvoke(p, out)
    /\ pc' = [pc EXCEPT ![p] = "raising"]
    /\ UNCHANGED << raw_query, user_query, response, site, query, queries, qi,
                    all_docs, seen_content, scored_docs, top_docs,
                    search_results, prompt, answer, vs_log >>
    /\ UNCHANGED << vs_memo, runs, first_answer, other_vars >>

\* An exception has left run_enhanced_agent: the except clause of
\* process_query, or, were there none, the exception reaches the caller
\* (pc = "raised").
Except(p) ==
    /\ pc[p] = "raising"
    /\ LET handled == process_query_except(llm_log[p])
       IN  /\ pc' = [pc EXCEPT ![p] = handled.pc]
           /\ answer' = [answer EXCEPT ![p] = handled.answer]
    /\ UNCHANGED << raw_query, user_query, response, site, query, queries, qi,
                    all_docs, seen_content, scored_docs, top_docs,
                    search_results, prompt, vs_log, llm_log >>
    /\ UNCHANGED << world_vars, other_vars >>

\* One invocation of process_query, on any of Queries, with an index and an
\* LLM that may answer anything.
Init == FrameInit /\ WorldInit /\ FnIdle /\ ChatIdle /\ IngestIdle

Next ==
    \E p \in Procs :
        \/ ProcessQuery(p, Queries)
        \/ RunEnhancedAgent(p)
        \/ Retrieve(p, VsOutcomes)
        \/ RetrieveRaises(p, VsOutcomes)
        \/ Rerank(p)
        \/ DirectSearchReturns(p)
        \/ ActionSearchReturns(p)
        \/ ForcedSearchReturns(p)
        \/ Decide(p, LlmOutcomes)
        \/ Answer(p, LlmOutcomes)
        \/ LlmRaises(p, LlmOutcomes)
        \/ Except(p)

Spec == Init /\ [][Next]_vars

(***************************************************************************)
(* Invocations one after the other, of an index and an LLM that answer a   *)
(* request the same way every time                                         *)
(***************************************************************************)

\* The invocations of one behaviour.
MaxRuns == 3

RepeatQueries == { "list of courses", "Fee structure" }

RepeatVsOutcomes ==
    { [raised |-> FALSE, docs |-> << >>, error |-> ""],
      [raised |-> FALSE, docs |-> << ChunkFeeA, ChunkFeeB, ChunkFeeC, ChunkAdmission >>,
       error |-> ""],
      [raised |-> TRUE, docs |-> << >>, error |-> "index unavailable"] }

RepeatLlmOutcomes ==
    { [raised |-> FALSE, content |-> " The fee is stated on page 40. \n", error |-> ""],
      [raised |-> FALSE, content |-> "Action: Search [fee structure]", error |-> ""],
      [raised |-> FALSE, content |-> "I cannot answer that.", error |-> ""],
      [raised |-> TRUE, content |-> "", error |-> "model unavailable"] }

\* What an invocation leaves to compare a later one with.
RunRecord(p) ==
    [raw_query |-> raw_query[p], answer |-> answer[p],
     searched |-> vs_log[p] # << >>, found |-> search_results[p].found,
     query |-> query[p], all_docs |-> all_docs[p], top_docs |-> top_docs[p]]

\* process_query has returned and its caller calls it again: the frame of
\* the finished call is not touched, the next call assigns its own.
Again(p) ==
    /\ pc[p] = "done"
    /\ runs + 1 < MaxRuns
    /\ pc' = [pc EXCEPT ![p] = "idle"]
    /\ runs' = runs + 1
    /\ first_answer' =
         IF \E h \in first_answer : h.raw_query = raw_query[p]
         THEN first_answer
         ELSE first_answer \cup {RunRecord(p)}
    /\ UNCHANGED << raw_query, user_query, response, site, query, queries, qi,
                    all_docs, seen_content, scored_docs, top_docs,
                    search_results, prompt, answer, vs_log, llm_log >>
    /\ UNCHANGED << vs_memo, llm_memo, other_vars >>

RepeatNext ==
    \E p \in Procs :
        \/ ProcessQuery(p, RepeatQueries)
        \/ RunEnhancedAgent(p)
        \/ Retrieve(p, RepeatVsOutcomes)
        \/ RetrieveRaises(p, RepeatVsOutcomes)
        \/ Rerank(p)
        \/ DirectSearchReturns(p)
        \/ ActionSearchReturns(p)
        \/ ForcedSearchReturns(p)
        \/ Decide(p, RepeatLlmOutcomes)
        \/ Answer(p, RepeatLlmOutcomes)
        \/ LlmRaises(p, RepeatLlmOutcomes)
        \/ Except(p)
        \/ Again(p)

SpecRepeat == Init /\ [][RepeatNext]_vars

(***************************************************************************)
(* The /chat endpoint: main.py                                             *)
(***************************************************************************)

\* Field(..., min_length=1, max_length=500)
MinMessageLength == 1
MaxMessageLength == 500

\* The validator of ChatRequest.message: a ValueError for a blank message,
\* else the message trimmed.
validate_message(v) ==
    IF v = "" \/ strip(v) = "" THEN [ok |-> FALSE, value |-> v]
    ELSE [ok |-> TRUE, value |-> strip(v)]

\* ChatRequest(**body): the field is required, its length is checked, then
\* the validator runs.
ChatRequest(b) ==
    IF /\ b.has_message
       /\ Len(b.message) >= MinMessageLength
       /\ Len(b.message) <= MaxMessageLength
    THEN validate_message(b.message)
    ELSE [ok |-> FALSE, value |-> b.message]

\* The response to a body ChatRequest rejects: chat_endpoint is not called.
ValidationErrorResponse ==
    [status |-> 422, detail |-> "validation error", response |-> ""]

\* return ChatResponse(response=response_text, ...)
ChatResponse(response_text) ==
    [status |-> 200, detail |-> "", response |-> response_text]

\* The exception classes that are ValueErrors.
ValueErrors == { "ValueError", "UnicodeEncodeError" }

\* The except clauses of chat_endpoint.
chat_endpoint_except(e) ==
    IF e.kind \in ValueErrors
    THEN [status |-> 400, detail |-> e.text, response |-> ""]
    ELSE [status |-> 500,
          detail |-> "An error occurred while processing your request: " \o e.text,
          response |-> ""]

\* The invocation of process_query that serves the request.
ChatProc == 1

Long500 == Preamble \o Preamble \o Preamble \o Preamble \o Preamble

\* The bodies posted: no message, messages of 0, 1, 500 and 501 characters,
\* blank ones, one that the trimming would bring to 500 characters, and
\* questions.
ChatBodies ==
    { [has_message |-> FALSE, message |-> ""] } \cup
    { [has_message |-> TRUE, message |-> m] :
        m \in { "", " ", " \n\t ", "?", Long500, Long500 \o "?", " " \o Long500,
                " Fee structure ", "What's the capital of France?",
                "list of courses" } }

\* What a write to stdout or stderr may raise in the except clause of
\* process_query.
StdoutErrors ==
    { [kind |-> "UnicodeEncodeError",
       text |-> "'ascii' codec can't encode character '\\u274c' in position 0"],
      [kind |-> "BrokenPipeError", text |-> "[Errno 32] Broken pipe"] }

\* POST /chat: the body is validated into a ChatRequest, or refused.
ChatValidate ==
    /\ chat_pc = "waiting"
    /\ \E b \in ChatBodies :
         LET request == ChatRequest(b)
         IN  /\ body' = b
             /\ IF request.ok
                THEN /\ chat_pc' = "validated"
                     /\ message' = request.value
                     /\ UNCHANGED http
                ELSE /\ chat_pc' = "responded"
                     /\ http' = ValidationErrorResponse
                     /\ UNCHANGED message
    /\ UNCHANGED << exc, frame_vars, world_vars, fn_vars, ingest_vars >>

\* chat_endpoint calls process_query(request.message).
ChatCall ==
    /\ chat_pc = "validated"
    /\ ProcessQuery(ChatProc, {message})

\* The except clause of process_query itself raises: its print or
\* traceback.print_exc() fails, and the exception leaves process_query.
ExceptRaises(p, errors) ==
    /\ pc[p] = "raising"
    /\ \E e \in errors : exc' = e
    /\ pc' = [pc EXCEPT ![p] = "raised"]
    /\ UNCHANGED << raw_query, user_query, response, site, query, queries, qi,
                    all_docs, seen_content, scored_docs, top_docs,
                    search_results, prompt, answer, vs_log, llm_log >>
    /\ UNCHANGED << world_vars, fn_vars, ingest_vars, chat_pc, body, message, http >>

\* chat_endpoint returns the ChatResponse or raises the HTTPException.
ChatRespond ==
    /\ chat_pc = "validated"
    /\ pc[ChatProc] \in {"done", "raised"}
    /\ chat_pc' = "responded"
    /\ http' = IF pc[ChatProc] = "done" THEN ChatResponse(answer[ChatProc])
               ELSE chat_endpoint_except(exc)
    /\ UNCHANGED << body, message, exc, frame_vars, world_vars, fn_vars, ingest_vars >>

ChatInit ==
    /\ FrameInit
    /\ WorldInit
    /\ FnIdle
    /\ IngestIdle
    /\ chat_pc = "waiting"
    /\ body = [has_message |-> FALSE, message |-> ""]
    /\ message = ""
    /\ exc = [kind |-> "none", text |-> ""]
    /\ http = [status |-> 0, detail |-> "", response |-> ""]

ChatNext ==
    \/ ChatValidate
    \/ ChatCall
    \/ ChatRespond
    \/ \E p \in Procs :
        \/ RunEnhancedAgent(p)
        \/ Retrieve(p, RepeatVsOutcomes)
        \/ RetrieveRaises(p, RepeatVsOutcomes)
        \/ Rerank(p)
        \/ DirectSearchReturns(p)
        \/ ActionSearchReturns(p)
        \/ ForcedSearchReturns(p)
        \/ Decide(p, RepeatLlmOutcomes)
        \/ Answer(p, RepeatLlmOutcomes)
        \/ LlmRaises(p, RepeatLlmOutcomes)
        \/ Except(p)
        \/ ExceptRaises(p, StdoutErrors)

SpecChat == ChatInit /\ [][ChatNext]_vars

(***************************************************************************)
(* Ingestion: ingest.py                                                    *)
(***************************************************************************)

\* DEPARTMENT_KEYWORDS, in the order of the dict
DEPARTMENT_KEYWORDS ==
    << [dept |-> "Computer Science",
        keywords |-> << "computer science", "cs department", "software",
                        "programming", "algorithm", "data structure" >>],
       [dept |-> "Electrical Engineering",
        keywords |-> << "electrical engineering", "ee department", "electronics",
                        "circuits", "power systems" >>],
       [dept |-> "Mechanical Engineering",
        keywords |-> << "mechanical engineering", "me department",
                        "thermodynamics", "mechanics", "manufacturing" >>],
       [dept |-> "Civil Engineering",
        keywords |-> << "civil engineering", "ce department", "structures",
                        "construction", "surveying" >>],
       [dept |-> "Chemical Engineering",
        keywords |-> << "chemical engineering", "chemistry",
                        "process engineering", "chemical processes" >>],
       [dept |-> "Industrial Engineering",
        keywords |-> << "industrial engineering", "ie department", "operations",
                        "production" >>],
       [dept |-> "Architecture",
        keywords |-> << "architecture", "architectural", "design studio",
                        "building design" >>],
       [dept |-> "Petroleum Engineering",
        keywords |-> << "petroleum", "oil", "gas", "reservoir" >>],
       [dept |-> "Biomedical Engineering",
        keywords |-> << "biomedical", "medical devices", "biomechanics" >>],
       [dept |-> "Environmental Engineering",
        keywords |-> << "environmental", "water treatment", "pollution" >>],
       [dept |-> "Textile Engineering",
        keywords |-> << "textile", "fabric", "fiber" >>],
       [dept |-> "Metallurgy",
        keywords |-> << "metallurgy", "materials science", "metals" >>],
       [dept |-> "Mining Engineering",
        keywords |-> << "mining", "mineral extraction" >>],
       [dept |-> "Aerospace Engineering",
        keywords |-> << "aerospace", "aeronautics", "aircraft" >>] >>

\* The elements of xs at the positions of S, in order.
RECURSIVE SelectAt(_, _, _)
SelectAt(xs, S, i) ==
    IF i > Len(xs) THEN << >>
    ELSE IF i \in S THEN << xs[i] >> \o SelectAt(xs, S, i + 1)
    ELSE SelectAt(xs, S, i + 1)

\* The departments the loop of extract_department_metadata appends.
matched_departments(text) ==
    LET text_lower == lower(text)
        hit == {i \in DOMAIN DEPARTMENT_KEYWORDS :
                  AnyIn(DEPARTMENT_KEYWORDS[i].keywords, text_lower)}
    IN  [i \in DOMAIN SelectAt(DEPARTMENT_KEYWORDS, hit, 1) |->
           SelectAt(DEPARTMENT_KEYWORDS, hit, 1)[i].dept]

\* Variant of departments_or_general: "General" heads every list.
general_and_departments(departments) == << "General" >> \o departments

\* return departments if departments else ["General"]
departments_or_general(departments) ==
    IF departments # << >> THEN departments ELSE << "General" >>

extract_department_metadata(text) ==
    departments_or_general(matched_departments(text))

extract_section_type(text) ==
    LET text_lower == lower(text)
    IN  IF AnyIn(<< "admission", "eligibility", "requirement", "criteria" >>, text_lower)
        THEN "admissions"
        ELSE IF AnyIn(<< "fee", "tuition", "cost", "charges" >>, text_lower)
        THEN "fees"
        ELSE IF AnyIn(<< "course", "syllabus", "curriculum", "semester" >>, text_lower)
        THEN "curriculum"
        ELSE IF AnyIn(<< "faculty", "professor", "dr.", "lecturer",
                         "head of department" >>, text_lower)
        THEN "faculty"
        ELSE IF AnyIn(<< "scholarship", "financial aid", "merit" >>, text_lower)
        THEN "financial_aid"
        ELSE IF AnyIn(<< "hostel", "accommodation", "residence" >>, text_lower)
        THEN "facilities"
        ELSE "general_info"

Digits == {"0", "1", "2", "3", "4", "5", "6", "7", "8", "9"}

\* The characters of s at the positions outside S.
Without(s, S) ==
    LET RECURSIVE Keep(_)
        Keep(i) == IF i > Len(s) THEN ""
                   ELSE IF i \in S THEN Keep(i + 1)
                   ELSE SubSeq(s, i, i) \o Keep(i + 1)
    IN  Keep(1)

\* The last position of the run of characters of `chars` that starts at i,
\* i - 1 when s holds none at i.
RunEnd(s, i, chars) ==
    LET stop == {j \in i..Len(s) : SubSeq(s, j, j) \notin chars}
    IN  IF stop = {} THEN Len(s) ELSE (CHOOSE j \in stop : \A k \in stop : j <= k) - 1

\* re.sub(r'\s+', ' ', text): every run of whitespace becomes one space
collapse_whitespace(s) ==
    IF s = "" THEN ""
    ELSE LET words == split(s)
             lead == IF SubSeq(s, 1, 1) \in Whitespace THEN " " ELSE ""
             trail == IF SubSeq(s, Len(s), Len(s)) \in Whitespace THEN " " ELSE ""
         IN  IF words = << >> THEN " " ELSE lead \o join(words) \o trail

\* re.sub(r'Page \d+', '', text, flags=re.IGNORECASE)
remove_page_numbers(s) ==
    LET starts == {i \in 1..(Len(s) - 5) :
                     /\ lower(SubSeq(s, i, i + 4)) = "page "
                     /\ SubSeq(s, i + 5, i + 5) \in Digits}
        covered == UNION {i..RunEnd(s, i + 5, Digits) : i \in starts}
    IN  Without(s, covered)

\* re.sub(r'\d+\s*\n', '', text): a run of digits, the whitespace after it
\* up to its last newline
remove_numbered_lines(s) ==
    LET runs_at == {i \in 1..Len(s) :
                      /\ SubSeq(s, i, i) \in Digits
                      /\ (i = 1 \/ SubSeq(s, i - 1, i - 1) \notin Digits)}
        last_newline(i) ==
            LET d == RunEnd(s, i, Digits)
                w == RunEnd(s, d + 1, Whitespace)
                nl == {j \in (d + 1)..w : SubSeq(s, j, j) = "\n"}
            IN  IF nl = {} THEN 0 ELSE CHOOSE j \in nl : \A k \in nl : j >= k
        covered == UNION {i..last_newline(i) : i \in runs_at}
    IN  Without(s, covered)

\* clean_text(text); the model is restricted to ASCII, where the two
\* replacements of mis-decoded ligatures change nothing.
clean_text(text) ==
    strip(remove_numbered_lines(remove_page_numbers(collapse_whitespace(text))))

\* d[key] = value
dict_set(d, key, value) ==
    [k \in DOMAIN d \cup {key} |-> IF k = key THEN value ELSE d[k]]

\* ",".join(departments)
RECURSIVE join_commas(_)
join_commas(parts) ==
    IF parts = << >> THEN ""
    ELSE IF Len(parts) = 1 THEN parts[1]
    ELSE parts[1] \o "," \o join_commas(Tail(parts))

\* chunk_size=800: the text splitter returns a page of at most so many
\* characters as one chunk, with the metadata of the page, and no chunk for
\* a page without text.
ChunkSize == 800

split_documents(ds) ==
    SelectAt(ds, {i \in DOMAIN ds : ds[i].page_content # ""}, 1)

\* The body of the metadata loop for splits[i], i counted from 0.
tag_split(chunk, i) ==
    LET departments == extract_department_metadata(chunk.page_content)
        m1 == dict_set(chunk.metadata, "departments", join_commas(departments))
        m2 == dict_set(m1, "section_type", extract_section_type(chunk.page_content))
        m3 == dict_set(m2, "chunk_id", i)
        m4 == IF "page" \notin DOMAIN m3 THEN dict_set(m3, "page", "unknown") ELSE m3
    IN  [page_content |-> chunk.page_content, metadata |-> m4]

\* The pages of the PDF, as the loader returns them.
MaxPages == 2

Pages ==
    { Chunk("Department of  Computer Science\nPage 12\n software and Circuits courses",
            [source |-> "prospectus.pdf", page |-> "11"]),
      Chunk("Admission criteria and fee structure 2024 \n",
            [source |-> "prospectus.pdf", page |-> "3"]),
      Chunk("Hostel accommodation for students\n\n", [source |-> "prospectus.pdf"]),
      Chunk("Dr. Sara Malik, Professor of Mining, page 7",
            [source |-> "prospectus.pdf", page |-> "7"]),
      Chunk("  \n\t ", [source |-> "prospectus.pdf", page |-> "0"]),
      Chunk("Merit scholarship, PAGE 30 tuition", [source |-> "prospectus.pdf"]),
      Chunk("Welcome to the campus", [source |-> "prospectus.pdf", page |-> "1"]),
      Chunk("Financial aid on merit for textile and Civil Engineering",
            [source |-> "prospectus.pdf", page |-> "9"]),
      Chunk("12 \n 7\n\nGeneral information", [source |-> "prospectus.pdf", page |-> "2"]) }

RECURSIVE PageSeqs(_)
PageSeqs(n) ==
    IF n = 0 THEN {<< >>}
    ELSE LET shorter == PageSeqs(n - 1)
         IN  shorter \cup {Append(s, d) : s \in shorter, d \in Pages}

\* ingest_data finds no PDF and raises FileNotFoundError.
IngestNoPdf ==
    /\ ingest_pc = "start"
    /\ ingest_pc' = "raised"
    /\ UNCHANGED << loaded_docs, splits, ingest_i, index_docs >>
    /\ UNCHANGED << frame_vars, world_vars, fn_vars, chat_vars >>

\* Step 1: loaded_docs = loader.load()
IngestLoad ==
    /\ ingest_pc = "start"
    /\ loaded_docs' \in PageSeqs(MaxPages)
    /\ ingest_pc' = "loaded"
    /\ UNCHANGED << splits, ingest_i, index_docs >>
    /\ UNCHANGED << frame_vars, world_vars, fn_vars, chat_vars >>

\* Steps 2 and 3: every page cleaned, then the pages split.
IngestSplit ==
    /\ ingest_pc = "loaded"
    /\ LET cleaned == [i \in DOMAIN loaded_docs |->
                         [page_content |-> clean_text(loaded_docs[i].page_content),
                          metadata |-> loaded_docs[i].metadata]]
       IN  /\ loaded_docs' = cleaned
           /\ splits' = split_documents(cleaned)
    /\ ingest_i' = 0
    /\ ingest_pc' = "tag"
    /\ UNCHANGED index_docs
    /\ UNCHANGED << frame_vars, world_vars, fn_vars, chat_vars >>

\* Step 4: one turn of the metadata loop.
IngestTag ==
    /\ ingest_pc = "tag"
    /\ ingest_i < Len(splits)
    /\ splits' = [splits EXCEPT ![ingest_i + 1] = tag_split(@, ingest_i)]
    /\ ingest_i' = ingest_i + 1
    /\ UNCHANGED << ingest_pc, loaded_docs, index_docs >>
    /\ UNCHANGED << frame_vars, world_vars, fn_vars, chat_vars >>

\* Step 5: Chroma.from_documents(documents=splits, ...)
IngestStore ==
    /\ ingest_pc = "tag"
    /\ ingest_i = Len(splits)
    /\ index_docs' = splits
    /\ ingest_pc' = "done"
    /\ UNCHANGED << loaded_docs, splits, ingest_i >>
    /\ UNCHANGED << frame_vars, world_vars, fn_vars, chat_vars >>

IngestInit ==
    /\ FrameInit
    /\ WorldInit
    /\ FnIdle
    /\ ChatIdle
    /\ ingest_pc = "start"
    /\ loaded_docs = << >>
    /\ splits = << >>
    /\ ingest_i = 0
    /\ index_docs = << >>

IngestNext == IngestNoPdf \/ IngestLoad \/ IngestSplit \/ IngestTag \/ IngestStore

SpecIngest == IngestInit /\ [][IngestNext]_vars

(***************************************************************************)
(* Concurrent invocations of process_query: the /chat endpoint is a plain   *)
(* def, which the server runs in a thread per request.  Every invocation    *)
(* has its own frame; vectorstore and llm are the module's.                 *)
(***************************************************************************)

ConcQueries ==
    { "list of courses", "fee structure", "phd",
      "What's the capital of France?" }

ConcVsOutcomes ==
    { [raised |-> FALSE, docs |-> << >>, error |-> ""],
      [raised |-> FALSE, docs |-> << ChunkFeeA, ChunkFeeB >>, error |-> ""],
      [raised |-> TRUE, docs |-> << >>, error |-> "index unavailable"] }

ConcLlmOutcomes ==
    { [raised |-> FALSE, content |-> " Hello! How can I help you? ", error |-> ""],
      [raised |-> FALSE, content |-> "Action: Search [fee structure]", error |-> ""],
      [raised |-> FALSE, content |-> "I'm Not Sure about that.", error |-> ""],
      [raised |-> TRUE, content |-> "", error |-> "model unavailable"] }

\* Two requests are being served: both invocations are about to start.
ConcInit ==
    /\ pc = [p \in Procs |-> "idle"]
    /\ raw_query = [p \in Procs |-> ""]
    /\ user_query = [p \in Procs |-> ""]
    /\ response = [p \in Procs |-> ""]
    /\ site = [p \in Procs |-> "none"]
    /\ query = [p \in Procs |-> ""]
    /\ queries = [p \in Procs |-> << >>]
    /\ qi = [p \in Procs |-> 1]
    /\ all_docs = [p \in Procs |-> << >>]
    /\ seen_content = [p \in Procs |-> {}]
    /\ scored_docs = [p \in Procs |-> << >>]
    /\ top_docs = [p \in Procs |-> << >>]
    /\ search_results = [p \in Procs |-> NoResults]
    /\ prompt = [p \in Procs |-> NoPrompt]
    /\ answer = [p \in Procs |-> ""]
    /\ vs_log = [p \in Procs |-> << >>]
    /\ llm_log = [p \in Procs |-> << >>]
    /\ WorldInit
    /\ FnIdle
    /\ ChatIdle
    /\ IngestIdle

\* A step of either invocation, in any order.
ConcNext ==
    \E p \in Procs :
        \/ ProcessQuery(p, ConcQueries)
        \/ RunEnhancedAgent(p)
        \/ Retrieve(p, ConcVsOutcomes)
        \/ RetrieveRaises(p, ConcVsOutcomes)
        \/ Rerank(p)
        \/ DirectSearchReturns(p)
        \/ ActionSearchReturns(p)
        \/ ForcedSearchReturns(p)
        \/ Decide(p, ConcLlmOutcomes)
        \/ Answer(p, ConcLlmOutcomes)
        \/ LlmRaises(p, ConcLlmOutcomes)
        \/ Except(p)

SpecConc == ConcInit /\ [][ConcNext]_vars

(***************************************************************************)
(* The functions applied to bounded inputs                                 *)
(***************************************************************************)

\* Queries are up to MaxWords words of Vocabulary joined by single spaces ...
MaxWords == 2

Vocabulary == { "hi", "Dean", "mathematics", "civil", "engineering",
                "transportation", "phd", "admission" }

RECURSIVE WordQueries(_)
WordQueries(n) ==
    IF n = 0 THEN {""}
    ELSE LET shorter == WordQueries(n - 1)
         IN  shorter \cup {IF q = "" THEN w ELSE q \o " " \o w :
                             q \in shorter, w \in Vocabulary}

\* ... and the queries of the documentation and of test_problematic_cases,
\* with some that differ from them in case, spacing and length.
FixedQueries ==
    { "Who is the chairperson of the mathematics department?",
      "What's the capital of France?",
      "admission requirements for civil engineering",
      "Can you tell me which department offers the M.Sc. Mining Engineering program?",
      "Is there any specific department that deals with Transportation Engineering?",
      "I am looking for the faculty list for the Department of Mathematics. Who is the Chairperson?",
      "I want to apply for M.Sc. Artificial Intelligence. Should I select the Department of Computer Science?",
      "I am interested in Geological Engineering. Is that the same as Geotechnical Engineering?",
      "  hi  ", "Hello there my friend", "hi there how are you", "history of art",
      "thank you", "good\nmorning", "say hi", "my method", "mathematics department faculty",
      " Who is the Dean of civil engineering? ", "mathematics chairperson",
      "Dean of civil or mechanical engineering",
      " ", "\n" }

FnQueries == WordQueries(MaxWords) \cup FixedQueries

FnInit ==
    /\ FrameInit
    /\ WorldInit
    /\ fn_called = "none"
    /\ fn_query \in FnQueries
    /\ fn_doc = Chunk("", [page |-> "unknown"])
    /\ fn_queries = << >>
    /\ fn_expanded = << >>
    /\ fn_related = FALSE
    /\ fn_score = 0
    /\ ChatIdle
    /\ IngestIdle

CallExpandQuery ==
    /\ fn_called = "none"
    /\ fn_called' = "expand_query"
    /\ fn_queries' = expand_candidates(fn_query)
    /\ fn_expanded' = expand_return(fn_queries')
    /\ UNCHANGED << fn_query, fn_doc, fn_related, fn_score >>
    /\ UNCHANGED << frame_vars, world_vars, chat_vars, ingest_vars >>

CallIsUetRelated ==
    /\ fn_called = "none"
    /\ fn_called' = "is_uet_related"
    /\ fn_related' = is_uet_related(fn_query)
    /\ UNCHANGED << fn_query, fn_doc, fn_queries, fn_expanded, fn_score >>
    /\ UNCHANGED << frame_vars, world_vars, chat_vars, ingest_vars >>

\* The chunks of the index.
Chunks == { ChunkMath, ChunkCivil, ChunkAdmission, ChunkFeeA, ChunkFeeB,
            ChunkFeeC, ChunkMining, ChunkUntagged }

\* The body of the scoring loop of search_prospectus, for one document.
CallScore ==
    /\ fn_called = "none"
    /\ fn_called' = "doc_score"
    /\ \E doc \in Chunks :
         /\ fn_doc' = doc
         /\ fn_score' = doc_score(fn_query, doc)
    /\ UNCHANGED << fn_query, fn_queries, fn_expanded, fn_related >>
    /\ UNCHANGED << frame_vars, world_vars, chat_vars, ingest_vars >>

FnNext == CallExpandQuery \/ CallIsUetRelated \/ CallScore

SpecFn == FnInit /\ [][FnNext]_vars

(***************************************************************************)
(* Properties of expand_query and is_uet_related                           *)
(***************************************************************************)

Min(a, b) == IF a < b THEN a ELSE b

\* The number of distinct elements among the first n elements of xs.
DistinctBefore(xs, n) == Cardinality({xs[j] : j \in 1..n})

\* out is xs without its repeated elements, in first-seen order, cut to n.
IsDedupCut(out, xs, n) ==
    /\ Len(out) = Min(n, Cardinality(Range(xs)))
    /\ \A k \in DOMAIN out :
         \E i \in DOMAIN xs :
            /\ xs[i] = out[k]
            /\ \A j \in 1..(i - 1) : xs[j] # xs[i]
            /\ DistinctBefore(xs, i - 1) = k - 1

\* C1: expand_query returns between 1 and 4 queries, the first of them the
\* query it was given, no query twice; the list is the candidates it built
\* without their repetitions, in first-seen order, cut to the first 4.
C1_ExpandShape ==
    fn_called = "expand_query" =>
        /\ Len(fn_expanded) >= 1
        /\ Len(fn_expanded) <= 4
        /\ fn_expanded[1] = fn_query
        /\ \A i, j \in DOMAIN fn_expanded : i # j => fn_expanded[i] # fn_expanded[j]
        /\ IsDedupCut(fn_expanded, fn_queries, 4)

\* expand_query has returned 4 queries from candidates that repeat one.
C1_Witness ==
    /\ fn_called = "expand_query"
    /\ Len(fn_queries) > Cardinality(Range(fn_queries))
    /\ Len(fn_expanded) = 4

ChairpersonQuery == "Who is the chairperson of the mathematics department?"

\* C2: for "Who is the chairperson of the mathematics department?" the list
\* expand_query returns holds "faculty list <query>" and both department
\* variants, "mathematics department faculty" and "mathematics chairperson
\* head".
C2_ChairpersonExpansion ==
    (fn_called = "expand_query" /\ fn_query = ChairpersonQuery) =>
        /\ ("faculty list " \o ChairpersonQuery) \in Range(fn_expanded)
        /\ "mathematics department faculty" \in Range(fn_expanded)
        /\ "mathematics chairperson head" \in Range(fn_expanded)

\* The character of s at position i.
CharAt(s, i) == SubSeq(s, i, i)

\* The number of whitespace-separated tokens of s: the positions where a
\* token starts.
TokenCount(s) ==
    Cardinality({i \in 1..Len(s) :
                    /\ CharAt(s, i) \notin Whitespace
                    /\ (i = 1 \/ CharAt(s, i - 1) \in Whitespace)})

\* s, once its leading whitespace is skipped, starts with g.
StartsAfterSpace(s, g) ==
    \E i \in 1..Len(s) :
        /\ \A j \in 1..(i - 1) : CharAt(s, j) \in Whitespace
        /\ i + Len(g) - 1 <= Len(s)
        /\ SubSeq(s, i, i + Len(g) - 1) = g

GreetingAccepted(q) ==
    /\ \E g \in Range(greetings) : StartsAfterSpace(lower(q), g)
    /\ TokenCount(q) <= 3

KeywordAccepted(q) ==
    \E k \in Range(uet_keywords) :
        \E i \in 1..Len(q) :
            i + Len(k) - 1 <= Len(q) /\ lower(SubSeq(q, i, i + Len(k) - 1)) = k

\* C6: is_uet_related(q) is true exactly when q, trimmed and lowercased,
\* starts with a greeting word and q has at most 3 tokens, or q lowercased
\* contains a domain keyword; "hi" and "admission requirements for civil
\* engineering" are accepted, "What's the capital of France?" is rejected.
C6_GuardrailIff ==
    fn_called = "is_uet_related" =>
        /\ fn_related = (GreetingAccepted(fn_query) \/ KeywordAccepted(fn_query))
        /\ fn_query = "hi" => fn_related
        /\ fn_query = "admission requirements for civil engineering" => fn_related
        /\ fn_query = "What's the capital of France?" => ~fn_related

\* A greeting with spaces around it and no domain keyword has been accepted.
C6_Witness ==
    /\ fn_called = "is_uet_related"
    /\ fn_query = "  hi  "
    /\ fn_related
    /\ ~KeywordAccepted(fn_query)

(***************************************************************************)
(* Properties of the scoring                                               *)
(***************************************************************************)

\* The start positions of the windows of n of the words that occur, joined
\* by single spaces, in the text.
WindowsIn(words, n, text) ==
    {i \in 1..(Len(words) - n + 1) :
        Contains(text, join(SubSeq(words, i, i + n - 1)))}

\* (1) every window of 4, 3 and 2 words of the lowercased query that occurs
\* in the lowercased chunk text counts its length times 10
PhraseTerm(words, text) ==
    40 * Cardinality(WindowsIn(words, 4, text))
    + 30 * Cardinality(WindowsIn(words, 3, text))
    + 20 * Cardinality(WindowsIn(words, 2, text))

\* (2) every distinct word of the query that is a word of the chunk counts 2
KeywordTerm(words, text_words) ==
    2 * Cardinality({w \in Range(words) : \E i \in DOMAIN text_words : text_words[i] = w})

\* (3) in a query about faculty every role indicator of the chunk counts 15
RoleTerm(q, text) ==
    IF \E w \in {"chairperson", "faculty", "head", "dean", "professor"} :
          Contains(q, w)
    THEN 15 * Cardinality({r \in {"dr.", "prof.", "chairperson",
                                  "head of department", "professor", "lecturer"} :
                              Contains(text, r)})
    ELSE 0

\* (4) every department fragment of the query that the chunk text or its
\* departments tag holds counts 10
DepartmentTerm(q, text, metadata) ==
    10 * Cardinality({d \in {"mathematics", "computer", "electrical", "civil",
                             "mechanical", "mining"} :
                         /\ Contains(q, d)
                         /\ \/ Contains(text, d)
                            \/ /\ "departments" \in DOMAIN metadata
                               /\ Contains(lower(metadata.departments), d)})

\* The four terms for a query and a chunk, compared case-insensitively.
FourTerms(q, doc) ==
    LET ql == lower(q)
        text == lower(doc.page_content)
        words == split(ql)
        text_words == split(text)
    IN  [phrase |-> PhraseTerm(words, text),
         keyword |-> KeywordTerm(words, text_words),
         role |-> RoleTerm(ql, text),
         department |-> DepartmentTerm(ql, text, doc.metadata)]

\* C5: the score of a chunk for a query is the sum of the phrase, keyword,
\* role and department terms, and of nothing else.
C5_ScoreIsSumOfFourTerms ==
    fn_called = "doc_score" =>
        LET t == FourTerms(fn_query, fn_doc)
        IN  fn_score = t.phrase + t.keyword + t.role + t.department

\* A chunk has been scored for a query of which it holds windows of 4, 3 and
\* 2 words, words, role indicators and the department: 160 + 10 + 30 + 10.
C5_Witness ==
    /\ fn_called = "doc_score"
    /\ fn_query = " Who is the Dean of civil engineering? "
    /\ fn_doc = ChunkCivil
    /\ FourTerms(fn_query, fn_doc) =
          [phrase |-> 160, keyword |-> 10, role |-> 30, department |-> 10]
    /\ fn_score = 210

(***************************************************************************)
(* Properties of search_prospectus                                         *)
(***************************************************************************)

\* The first 100 characters of a chunk's text.
Prefix100(doc) ==
    SubSeq(doc.page_content, 1, Min(100, Len(doc.page_content)))

\* The chunks the retriever has returned, in the order of the log.
RECURSIVE DocsOf(_)
DocsOf(log) ==
    IF log = << >> THEN << >> ELSE Head(log).outcome.docs \o DocsOf(Tail(log))

\* The positions of xs whose chunk has a prefix no earlier chunk of xs has.
FirstSeen(xs) ==
    {i \in DOMAIN xs : \A j \in 1..(i - 1) : Prefix100(xs[j]) # Prefix100(xs[i])}

\* kept holds the chunks of xs at the positions S, in the order of xs.
IsSelection(kept, xs, S) ==
    /\ Len(kept) = Cardinality(S)
    /\ \A i \in S : kept[Cardinality({j \in S : j < i}) + 1] = xs[i]

\* The retrieval loop of invocation p has ended.
LoopEnded(p) == pc[p] = "retrieve" /\ qi[p] > Len(queries[p])

\* C3: after the retrieval loop no two chunks of all_docs have the same first
\* 100 characters; of the chunks retrieved, all_docs holds those with a
\* prefix not seen before, and no other.
C3_PrefixDedup ==
    \A p \in Procs :
        LoopEnded(p) =>
            /\ \A i, j \in DOMAIN all_docs[p] :
                 i # j => Prefix100(all_docs[p][i]) # Prefix100(all_docs[p][j])
            /\ IsSelection(all_docs[p], DocsOf(vs_log[p]), FirstSeen(DocsOf(vs_log[p])))

\* The loop has ended after two chunks with the same first 100 characters and
\* different texts were retrieved, and one that differs from them in the
\* 100th character: the first and the third are kept.
C3_Witness ==
    \E p \in Procs :
        /\ LoopEnded(p)
        /\ {ChunkFeeA, ChunkFeeB, ChunkFeeC} \subseteq Range(DocsOf(vs_log[p]))
        /\ ChunkFeeA \in Range(all_docs[p])
        /\ ChunkFeeB \notin Range(all_docs[p])
        /\ ChunkFeeC \in Range(all_docs[p])

\* search_prospectus has returned, found, to invocation p.
Ranked(p) == pc[p] = "searched" /\ search_results[p].found

\* The position of doc in docs.
PositionIn(docs, doc) == CHOOSE i \in DOMAIN docs : docs[i] = doc

\* top is a selection of min(6, n) of the n docs, in the order of
\* non-increasing score, retrieval order among equals, that leaves out no
\* doc that scores more than one it holds.
IsTopSelection(top, docs, score) ==
    /\ Len(top) = Min(6, Len(docs))
    /\ \A i \in DOMAIN top : top[i] \in Range(docs)
    /\ \A i, j \in DOMAIN top :
         i < j =>
            LET a == PositionIn(docs, top[i])
                b == PositionIn(docs, top[j])
            IN  score[a] > score[b] \/ (score[a] = score[b] /\ a < b)
    /\ \A k \in DOMAIN docs :
         docs[k] \notin Range(top) =>
            \A i \in DOMAIN top : score[k] <= score[PositionIn(docs, top[i])]

\* C4: the re-ranker selects min(6, n) of the n unique chunks, by
\* non-increasing score, chunks of equal score in retrieval order, and leaves
\* out no chunk that scores more than one it selects.
C4_TopSixStable ==
    \A p \in Procs :
        Ranked(p) =>
            IsTopSelection(top_docs[p], all_docs[p],
                           [i \in DOMAIN all_docs[p] |->
                              doc_score(query[p], all_docs[p][i])])

\* Seven chunks were ranked, so one is left out, and two of the selected
\* score the same.
C4_Witness ==
    \E p \in Procs :
        /\ Ranked(p)
        /\ Len(all_docs[p]) = 7
        /\ Len(top_docs[p]) = 6
        /\ \E i, j \in DOMAIN top_docs[p] :
             i # j /\ doc_score(query[p], top_docs[p][i])
                      = doc_score(query[p], top_docs[p][j])

(***************************************************************************)
(* Properties of process_query                                             *)
(***************************************************************************)

\* Invocation p was given a query.
Called(p) == pc[p] \notin {"off", "idle"}

\* C7: an input that is empty once trimmed gets the prompt for input, an
\* input the guardrail rejects gets the out-of-domain message, and in both
\* cases the invocation has ended with no call of the index or of the LLM.
C7_RejectedBeforeAnyCall ==
    \A p \in Procs :
        Called(p) =>
            /\ strip(raw_query[p]) = "" =>
                 /\ pc[p] = "done"
                 /\ answer[p] = "Please ask me a question about UET."
                 /\ vs_log[p] = << >> /\ llm_log[p] = << >>
            /\ (strip(raw_query[p]) # "" /\ ~is_uet_related(strip(raw_query[p]))) =>
                 /\ pc[p] = "done"
                 /\ answer[p] = MsgOutOfDomain
                 /\ vs_log[p] = << >> /\ llm_log[p] = << >>

\* A query that is not about UET was rejected.
C7_Witness ==
    \E p \in Procs :
        /\ pc[p] = "done"
        /\ raw_query[p] = "What's the capital of France?"
        /\ answer[p] = MsgOutOfDomain
        /\ vs_log[p] = << >> /\ llm_log[p] = << >>

\* Every expansion of the query of invocation p was looked up, and the index
\* returned no chunk for any.
NothingRetrieved(p) ==
    /\ Len(vs_log[p]) = Len(expand_query(user_query[p]))
    /\ \A i \in DOMAIN vs_log[p] :
         /\ vs_log[p][i].request.q = expand_query(user_query[p])[i]
         /\ ~vs_log[p][i].outcome.raised
         /\ vs_log[p][i].outcome.docs = << >>

\* C8: a query that passes the guardrail and holds a direct-search
\* indicator, for which retrieval yields no chunk for any expansion, gets
\* the "couldn't find" message of the direct path, and the LLM is not called.
C8_DirectNothingFound ==
    \A p \in Procs :
        ( /\ pc[p] \in {"searched", "decide", "answer", "done", "raising", "raised"}
          /\ is_uet_related(user_query[p])
          /\ should_search_directly(user_query[p])
          /\ NothingRetrieved(p) ) =>
            /\ llm_log[p] = << >>
            /\ pc[p] \in {"searched", "done"}
            /\ pc[p] = "done" =>
                 answer[p] = "I couldn't find specific information about that in the UET prospectus. Could you rephrase your question or ask about a specific department?"

\* A direct search of four expansions found nothing and the invocation ended.
C8_Witness ==
    \E p \in Procs :
        /\ pc[p] = "done"
        /\ should_search_directly(user_query[p])
        /\ NothingRetrieved(p)
        /\ Len(vs_log[p]) = 4
        /\ answer[p] = MsgNotFoundDirect

\* The last external call of the log raised.
LastRaised(log) == log # << >> /\ log[Len(log)].outcome.raised

RankedRun(p) == pc[p] = "done" /\ vs_log[p] # << >> /\ search_results[p].found

\* C10: an invocation on a query that an earlier invocation was given returns
\* the answer the first one returned, whatever was asked in between; and a
\* search that ranks the chunks an earlier search ranked, for the same query,
\* selects the same chunks in the same order.
C10_SameQuerySameAnswer ==
    \A p \in Procs :
        pc[p] = "done" =>
            \A h \in first_answer :
                /\ h.raw_query = raw_query[p] =>
                     /\ h.answer = answer[p]
                     /\ h.searched = (vs_log[p] # << >>)
                /\ (h.searched /\ h.found /\ RankedRun(p)
                      /\ h.query = query[p] /\ h.all_docs = all_docs[p])
                     => h.top_docs = top_docs[p]

\* The third invocation has ended; it was given the query of the first, for
\* which chunks were ranked and the LLM answered, and another query was
\* asked in between.
C10_Witness ==
    \E p \in Procs :
        /\ RankedRun(p)
        /\ runs = 2
        /\ llm_log[p] # << >>
        /\ \E h \in first_answer :
             /\ h.raw_query = raw_query[p]
             /\ h.searched /\ h.found
             /\ h.top_docs = top_docs[p] /\ Len(h.top_docs) >= 2
        /\ \E h \in first_answer : h.raw_query # raw_query[p]

(***************************************************************************)
(* Properties of the /chat endpoint                                        *)
(***************************************************************************)

\* The body has no message, or one that is empty, longer than 500
\* characters or blank once trimmed.
Malformed(b) ==
    \/ ~b.has_message
    \/ b.message = ""
    \/ Len(b.message) > 500
    \/ strip(b.message) = ""

\* The request was answered.
Responded == chat_pc = "responded"

\* C11: a malformed message gets a client-error response and process_query
\* is not called for it; a failure while a valid message is processed gets
\* status 500 with a detail that does not hold the text of the exception.
C11_ChatErrors ==
    Responded =>
        /\ Malformed(body) =>
             /\ http.status \in 400..499
             /\ pc[ChatProc] = "idle"
        /\ (~Malformed(body) /\ pc[ChatProc] = "raised") =>
             /\ http.status = 500
             /\ ~Contains(http.detail, exc.text)

(***************************************************************************)
(* Properties of ingest_data                                               *)
(***************************************************************************)

\* The parts of s between its commas.
SplitCommas(s) ==
    LET commas == {i \in 1..Len(s) : SubSeq(s, i, i) = ","}
        starts == {1} \cup {i + 1 : i \in commas}
        part(b) == SubSeq(s, b, RunEnd(s, b, {SubSeq(s, j, j) : j \in 1..Len(s)} \ {","}))
    IN  {part(b) : b \in starts}

\* The text holds a keyword of some department.
KeywordMatched(text) ==
    \E i \in DOMAIN DEPARTMENT_KEYWORDS :
        \E k \in DOMAIN DEPARTMENT_KEYWORDS[i].keywords :
            Contains(lower(text), DEPARTMENT_KEYWORDS[i].keywords[k])

SectionTypes ==
    { "admissions", "fees", "curriculum", "faculty", "financial_aid", "facilities",
      "general_info" }

\* C12: every chunk written to the index has a non-empty list of department
\* tags that holds "General" exactly when no department keyword matched its
\* text, and then nothing else; one section_type of the seven; a chunk_id
\* that is its position in the split sequence, from 0; and a page.
C12_ChunkMetadata ==
    \A i \in DOMAIN index_docs :
        LET m == index_docs[i].metadata
            tags == SplitCommas(m.departments)
        IN  /\ {"departments", "section_type", "chunk_id", "page"} \subseteq DOMAIN m
            /\ m.departments # "" /\ "" \notin tags
            /\ ("General" \in tags) <=> ~KeywordMatched(index_docs[i].page_content)
            /\ "General" \in tags => tags = {"General"}
            /\ m.section_type \in SectionTypes
            /\ m.chunk_id = i - 1
            /\ m.page # ""

\* Two chunks were written: the first tagged with two departments, the
\* second with "General" and the page "unknown".
C12_Witness ==
    /\ ingest_pc = "done"
    /\ Len(index_docs) = 2
    /\ index_docs[1].metadata.departments = "Computer Science,Electrical Engineering"
    /\ index_docs[2].metadata.departments = "General"
    /\ index_docs[2].metadata.page = "unknown"
    /\ index_docs[2].metadata.chunk_id = 1

(***************************************************************************)
(* Properties of run_enhanced_agent                                        *)
(***************************************************************************)

\* Invocation p passed the guardrail with a query that holds no
\* direct-search indicator.
AgentDecides(p) ==
    /\ Called(p)
    /\ user_query[p] # ""
    /\ is_uet_related(user_query[p])
    /\ ~should_search_directly(user_query[p])

\* Every character of text from position a to position b is white space.
BlankBetween(text, a, b) ==
    \A i \in a..b : SubSeq(text, i, i) \in Whitespace

\* The directives of text: << s, a, b >> where "action:" starts at s, in any
\* case, "search" follows, "[" is at a and a "]" at b, with white space at
\* most in between and one character at least inside the brackets.
Directives(text) ==
    LET low == lower(text)
        n == Len(text)
        heads == {s \in 1..n : s + 6 <= n /\ SubSeq(low, s, s + 6) = "action:"}
        opened == {sa \in heads \X (1..n) :
                     /\ SubSeq(text, sa[2], sa[2]) = "["
                     /\ \E t \in (sa[1] + 7)..(sa[2] - 6) :
                          /\ SubSeq(low, t, t + 5) = "search"
                          /\ BlankBetween(text, sa[1] + 7, t - 1)
                          /\ BlankBetween(text, t + 6, sa[2] - 1)}
    IN  {sab \in {<< sa[1], sa[2], b >> : sa \in opened, b \in 1..n} :
            sab[3] >= sab[2] + 2 /\ SubSeq(text, sab[3], sab[3]) = "]"}

\* The terms of the first directive of text, closed at the first "]" that
\* can close it: what its brackets hold, without the white space and then
\* the quotation marks around it.
TermsAmong(text, D) ==
    LET d == CHOOSE d \in D :
                \A e \in D : d[1] < e[1] \/ (d[1] = e[1] /\ d[3] <= e[3])
        inner == strip(SubSeq(text, d[2] + 1, d[3] - 1))
    IN  stripChars(stripChars(inner, {"\""}), {"'"})

Terms(text) == TermsAmong(text, Directives(text))

\* The LLM has answered the decision prompt of invocation p.
Decided(p) == llm_log[p] # << >> /\ ~llm_log[p][1].outcome.raised

\* What the LLM answered to the decision prompt of invocation p.
Decision(p) == llm_log[p][1].outcome.content

\* C13: on the path without direct search the first external call is the
\* decision prompt to the LLM.  When the decision holds a directive
\* "Action: Search [terms]", in any case and over line breaks, retrieval runs
\* on the terms and never on anything else; when it finds chunks the second
\* call of the LLM is the grounding prompt on them and its output is returned
\* trimmed; when it finds none the "Could you rephrase your question?"
\* message is returned after that one call of the LLM.
C13_ActionSearch ==
    \A p \in Procs :
        AgentDecides(p) =>
            /\ vs_log[p] # << >> => llm_log[p] # << >>
            /\ llm_log[p] # << >> =>
                 llm_log[p][1].request =
                    [template |-> "decision", user_query |-> user_query[p],
                     context |-> ""]
            /\ Decided(p) =>
                 LET D == Directives(Decision(p))
                     terms == TermsAmong(Decision(p), D)
                     expansions == expand_query(terms)
                 IN  D # {} =>
                     /\ site[p] = "action"
                     /\ query[p] = terms
                     /\ Len(vs_log[p]) <= Len(expansions)
                     /\ \A i \in DOMAIN vs_log[p] :
                          vs_log[p][i].request.q = expansions[i]
                     /\ Len(llm_log[p]) <= 2
                     /\ pc[p] \in {"retrieve", "searched", "answer", "raising",
                                   "done"}
                     /\ pc[p] \in {"answer", "raising"} => search_results[p].found
                     /\ pc[p] = "answer" =>
                          prompt[p] =
                             [template |-> "action_answer",
                              user_query |-> user_query[p],
                              context |-> search_results[p].context]
                     /\ Len(llm_log[p]) = 2 =>
                          /\ search_results[p].found
                          /\ llm_log[p][2].request =
                               [template |-> "action_answer",
                                user_query |-> user_query[p],
                                context |-> search_results[p].context]
                          /\ (pc[p] = "done" /\ ~llm_log[p][2].outcome.raised) =>
                               answer[p] = strip(llm_log[p][2].outcome.content)
                     /\ (pc[p] = "done" /\ ~search_results[p].found) =>
                          /\ answer[p] = "I couldn't find specific information about that in the UET prospectus. Could you rephrase your question?"
                          /\ Len(llm_log[p]) = 1

\* The decision held a lower-case directive over three lines, with quoted
\* terms, that is not the query; chunks were found for the terms and the
\* second answer of the LLM was returned trimmed.
C13_Witness ==
    \E p \in Procs :
        /\ AgentDecides(p)
        /\ pc[p] = "done"
        /\ Decision(p) = "Sure.\naction:search\n[ \"Dean of\ncivil engineering\" ] and [more]"
        /\ query[p] = "Dean of\ncivil engineering"
        /\ query[p] # user_query[p]
        /\ search_results[p].found
        /\ Len(llm_log[p]) = 2
        /\ llm_log[p][2].outcome.content = " Hello! How can I help you? "
        /\ answer[p] = "Hello! How can I help you?"

\* A directive was followed, nothing was found for its terms, and the
\* rephrase message was returned after one call of the LLM.
C13_WitnessNotFound ==
    \E p \in Procs :
        /\ AgentDecides(p)
        /\ pc[p] = "done"
        /\ Decided(p) /\ Directives(Decision(p)) # {}
        /\ vs_log[p] # << >>
        /\ ~search_results[p].found
        /\ Len(llm_log[p]) = 1
        /\ answer[p] = MsgNotFoundRephrase

\* The text holds refusal language, in any case.
Refuses(text) ==
    \E phrase \in {"don't have", "cannot", "not sure"} :
        Contains(lower(text), phrase)

\* C14: on the path without direct search, when the decision holds no
\* directive: if it holds refusal language ("don't have", "cannot",
\* "not sure", in any case) retrieval runs on the user's query and, when it
\* finds chunks, the LLM is given the context-only prompt and its output,
\* trimmed, is returned; in every other case (no refusal language, or nothing
\* found) the decision is returned as the LLM wrote it and nothing more is
\* asked of the index or of the LLM.
C14_RefusalFallback ==
    \A p \in Procs :
        (AgentDecides(p) /\ Decided(p) /\ Directives(Decision(p)) = {}) =>
            /\ Refuses(Decision(p)) =>
                 /\ site[p] = "refusal"
                 /\ query[p] = user_query[p]
                 /\ LET expansions == expand_query(user_query[p])
                    IN  /\ Len(vs_log[p]) <= Len(expansions)
                        /\ \A i \in DOMAIN vs_log[p] :
                             vs_log[p][i].request.q = expansions[i]
                 /\ Len(llm_log[p]) <= 2
                 /\ pc[p] \in {"retrieve", "searched", "answer", "raising", "done"}
                 /\ pc[p] \in {"answer", "raising"} => search_results[p].found
                 /\ pc[p] = "answer" =>
                      prompt[p] =
                         [template |-> "forced_answer",
                          user_query |-> user_query[p],
                          context |-> search_results[p].context]
                 /\ Len(llm_log[p]) = 2 =>
                      /\ search_results[p].found
                      /\ llm_log[p][2].request =
                           [template |-> "forced_answer",
                            user_query |-> user_query[p],
                            context |-> search_results[p].context]
                      /\ (pc[p] = "done" /\ ~llm_log[p][2].outcome.raised) =>
                           answer[p] = strip(llm_log[p][2].outcome.content)
                 /\ (pc[p] = "done" /\ ~search_results[p].found) =>
                      /\ answer[p] = Decision(p)
                      /\ Len(llm_log[p]) = 1
            /\ ~Refuses(Decision(p)) =>
                 /\ pc[p] = "done"
                 /\ answer[p] = Decision(p)
                 /\ Len(llm_log[p]) = 1
                 /\ vs_log[p] = << >>

\* The decision was a refusal in mixed case; chunks were found for the
\* user's query and the answer to the context-only prompt was returned.
C14_Witness ==
    \E p \in Procs :
        /\ AgentDecides(p)
        /\ pc[p] = "done"
        /\ Decision(p) = "I'm Not Sure about that."
        /\ site[p] = "refusal"
        /\ search_results[p].found
        /\ Len(llm_log[p]) = 2
        /\ llm_log[p][2].request.template = "forced_answer"
        /\ llm_log[p][2].outcome.content = "Action: Search [fee structure]"
        /\ answer[p] = "Action: Search [fee structure]"

\* The decision was a refusal, nothing was found for the user's query, and
\* the refusal was returned.
C14_WitnessNothingFound ==
    \E p \in Procs :
        /\ AgentDecides(p)
        /\ pc[p] = "done"
        /\ Decided(p) /\ Refuses(Decision(p))
        /\ Len(vs_log[p]) >= 1
        /\ ~search_results[p].found
        /\ answer[p] = Decision(p)

\* A reply with white space around it and without refusal language was
\* returned as it was.
C14_WitnessUnmodified ==
    \E p \in Procs :
        /\ AgentDecides(p)
        /\ pc[p] = "done"
        /\ Decided(p)
        /\ answer[p] = " Hello! How can I help you? "
        /\ vs_log[p] = << >>

(***************************************************************************)
(* No retries                                                              *)
(***************************************************************************)

\* Invocation p enters search_prospectus in this step.
EntersSearch(p) == pc[p] # "retrieve" /\ pc'[p] = "retrieve"

\* An external call of invocation p has raised.
HasRaised(p) == LastRaised(vs_log[p]) \/ LastRaised(llm_log[p])

\* What the logs of one invocation may hold.
CallsBounded(p) ==
    /\ Len(vs_log[p]) <= 4
    /\ vs_log[p] # << >> =>
         LET expansions == expand_query(query[p])
         IN  /\ Len(vs_log[p]) <= Len(expansions)
             /\ \A i \in DOMAIN vs_log[p] :
                  vs_log[p][i].request.q = expansions[i]
    /\ \A i \in DOMAIN vs_log[p] :
         /\ vs_log[p][i].request.k = 4
         /\ vs_log[p][i].request.fetch_k = 15
         /\ vs_log[p][i].request.lambda_mult_tenths = 5
         /\ \A j \in DOMAIN vs_log[p] :
              i # j => vs_log[p][i].request.q # vs_log[p][j].request.q
         /\ i < Len(vs_log[p]) => ~vs_log[p][i].outcome.raised
    /\ Len(llm_log[p]) <= 2
    /\ (Called(p) /\ should_search_directly(user_query[p])) =>
         Len(llm_log[p]) <= 1
    /\ \A i \in DOMAIN llm_log[p] :
         i < Len(llm_log[p]) => ~llm_log[p][i].outcome.raised

\* C15: nothing is retried within a query: search_prospectus is entered at
\* most once; the index is asked once per expansion, so four times at most,
\* each time with k = 4, fetch_k = 15 and lambda_mult = 0.5; the LLM is asked
\* twice at most, and once at most on the direct-search path; and after an
\* external call has raised, nothing more is asked of the index or the LLM.
C15_NoRetry ==
    /\ [](\A p \in Procs : CallsBounded(p))
    /\ [][\A p \in Procs :
            /\ EntersSearch(p) => (site[p] = "none" /\ vs_log[p] = << >>)
            /\ site'[p] # site[p] => EntersSearch(p)
            /\ HasRaised(p) =>
                 (vs_log'[p] = vs_log[p] /\ llm_log'[p] = llm_log[p])]_vars

\* An invocation has ended after four requests to the index and two to the
\* LLM.
C15_Witness ==
    \E p \in Procs :
        /\ pc[p] = "done"
        /\ Len(vs_log[p]) = 4
        /\ Len(llm_log[p]) = 2
        /\ ~HasRaised(p)

\* An invocation has ended after the index raised on the second of four
\* expansions.
C15_WitnessRaised ==
    \E p \in Procs :
        /\ pc[p] = "done"
        /\ Len(expand_query(query[p])) = 4
        /\ Len(vs_log[p]) = 2
        /\ LastRaised(vs_log[p])

(***************************************************************************)
(* Properties of the keyword families of expand_query                      *)
(***************************************************************************)

\* s ends with t.
endswith(s, t) ==
    Len(t) <= Len(s) /\ SubSeq(s, Len(s) - Len(t) + 1, Len(s)) = t

\* The families, and whether the synthetic query x is built from a template
\* of the family.
Families == {"faculty", "program", "admission", "transportation", "geo"}

IsOf(family, x) ==
    CASE family = "faculty" ->
           \/ startswith(x, "faculty list ") \/ startswith(x, "staff members ")
           \/ endswith(x, " department faculty") \/ endswith(x, " chairperson head")
      [] family = "program" ->
           \/ startswith(x, "program offered by department ")
           \/ endswith(x, " program department")
      [] family = "admission" ->
           \/ startswith(x, "admission requirements ")
           \/ startswith(x, "eligibility criteria ")
      [] family = "transportation" ->
           x \in {"civil engineering transportation",
                  "transportation engineering department"}
      [] family = "geo" ->
           x \in {"mining geological engineering",
                  "civil geotechnical engineering"}

\* The query q holds a keyword of the family.
Matched(family, q) ==
    LET low == lower(q)
    IN  CASE family = "faculty" -> \E i \in DOMAIN FacultyWords : Contains(low, FacultyWords[i])
          [] family = "program" -> \E i \in DOMAIN ProgramWords : Contains(low, ProgramWords[i])
          [] family = "admission" -> \E i \in DOMAIN AdmissionWords : Contains(low, AdmissionWords[i])
          [] family = "transportation" -> Contains(low, "transportation")
          [] family = "geo" -> Contains(low, "geological") \/ Contains(low, "geotechnical")

\* The positions of the candidate list, after the query itself, that hold a
\* synthetic query of the family.
AppendedBy(family) ==
    {i \in 2..Len(fn_queries) : IsOf(family, fn_queries[i])}

\* The synthetic queries appended.
Synthetic == {fn_queries[i] : i \in 2..Len(fn_queries)}

\* The terms of the list that occur in the query q, and the first of the
\* list among them.
Occurring(terms, q) == {i \in DOMAIN terms : Contains(lower(q), terms[i])}

IsFirstOccurring(terms, q, i) ==
    i \in Occurring(terms, q) /\ \A j \in Occurring(terms, q) : i <= j

\* Within a family the synthetic queries built from a domain term are those
\* of the first term of the list that occurs in the query, and of no other.
FirstTermOnly ==
    /\ \A i \in DOMAIN ExpandDepartments :
         LET built == {ExpandDepartments[i] \o " department faculty",
                       ExpandDepartments[i] \o " chairperson head"}
         IN  IF Matched("faculty", fn_query)
                /\ IsFirstOccurring(ExpandDepartments, fn_query, i)
             THEN built \subseteq Synthetic
             ELSE built \cap Synthetic = {}
    /\ \A i \in DOMAIN ExpandPrograms :
         LET built == ExpandPrograms[i] \o " program department"
         IN  (built \in Synthetic) <=>
                /\ Matched("program", fn_query)
                /\ IsFirstOccurring(ExpandPrograms, fn_query, i)

\* Every synthetic query is of one family, and a family that is not matched
\* appends none.
OnlyMatchedFamiliesAppend ==
    /\ \A i \in 2..Len(fn_queries) :
         Cardinality({f \in Families : IsOf(f, fn_queries[i])}) = 1
    /\ \A f \in Families : ~Matched(f, fn_query) => AppendedBy(f) = {}

\* C16, as claimed: every matched family appends one synthetic query at
\* least and two at most to the candidates, and within a family only the
\* first domain term of the list that occurs in the query is used.
C16_OneOrTwoPerFamily ==
    fn_called = "expand_query" =>
        /\ fn_queries[1] = fn_query
        /\ OnlyMatchedFamiliesAppend
        /\ \A f \in Families :
             Matched(f, fn_query) => Cardinality(AppendedBy(f)) \in 1..2
        /\ FirstTermOnly

\* C16, amended: the faculty/leadership family appends two synthetic queries,
\* and four when a department of its list occurs in the query; the
\* degree/program family appends one, and two when a program of its list
\* occurs; the admission, transportation and geological/geotechnical
\* families append two each; and within a family only the first domain term
\* of the list that occurs in the query is used.
C16_AppendsPerFamily ==
    fn_called = "expand_query" =>
        /\ fn_queries[1] = fn_query
        /\ OnlyMatchedFamiliesAppend
        /\ Matched("faculty", fn_query) =>
             Cardinality(AppendedBy("faculty")) =
                IF Occurring(ExpandDepartments, fn_query) = {} THEN 2 ELSE 4
        /\ Matched("program", fn_query) =>
             Cardinality(AppendedBy("program")) =
                IF Occurring(ExpandPrograms, fn_query) = {} THEN 1 ELSE 2
        /\ \A f \in {"admission", "transportation", "geo"} :
             Matched(f, fn_query) => Cardinality(AppendedBy(f)) = 2
        /\ FirstTermOnly

\* expand_query was applied to a faculty query naming two departments, of
\* which the one named second comes first in the list: four synthetic
\* queries were appended, two of them for that department.
C16_Witness ==
    /\ fn_called = "expand_query"
    /\ fn_query = "Dean of civil or mechanical engineering"
    /\ Cardinality(AppendedBy("faculty")) = 4
    /\ "mechanical department faculty" \in Synthetic
    /\ "civil department faculty" \notin Synthetic

(***************************************************************************)
(* Properties of concurrent invocations                                    *)
(***************************************************************************)

\* The index or the LLM has answered the request, and what it answered.
Asked(memo, request) == \E m \in memo : m.request = request

OutcomeOf(memo, request) == (CHOOSE m \in memo : m.request = request).outcome

\* An answer of process_query run alone; it is not known when the run asks
\* the index or the LLM what neither was asked.
Known(text) == [known |-> TRUE, text |-> text]

Unknown == [known |-> FALSE, text |-> ""]

\* The retrieval loop run alone from the i-th expansion on: the state of the
\* deduplication at its end, or the first exception.
RECURSIVE AloneLoop(_, _, _)
AloneLoop(qs, i, st) ==
    IF i > Len(qs) THEN [known |-> TRUE, raised |-> FALSE, error |-> "", st |-> st]
    ELSE IF ~Asked(vs_memo, VsRequest(qs[i]))
    THEN [known |-> FALSE, raised |-> FALSE, error |-> "", st |-> st]
    ELSE LET out == OutcomeOf(vs_memo, VsRequest(qs[i]))
         IN  IF out.raised
             THEN [known |-> TRUE, raised |-> TRUE, error |-> out.error, st |-> st]
             ELSE AloneLoop(qs, i + 1, Deduplicate(st, out.docs))

\* search_prospectus(q) run alone.
AloneSearch(q) ==
    LET end == AloneLoop(expand_query(q), 1,
                         [all_docs |-> << >>, seen_content |-> {}])
    IN  [known |-> end.known,
         result |->
            IF end.raised THEN SearchErrorResult(end.error)
            ELSE IF end.st.all_docs = << >> THEN NotFoundResult
            ELSE FoundResult(top_docs_of(sort_by_score(
                                score_docs(q, end.st.all_docs))))]

\* An answer step run alone: the output trimmed, or the apology.
AloneAnswer(pr) ==
    IF ~Asked(llm_memo, pr) THEN Unknown
    ELSE LET out == OutcomeOf(llm_memo, pr)
         IN  Known(IF out.raised THEN MsgApology ELSE strip(out.content))

\* A search of run_enhanced_agent run alone, and the answer after it: the
\* message when nothing is found, the answer to the prompt otherwise.
AloneSearchThen(q, not_found, pr(_)) ==
    LET s == AloneSearch(q)
    IN  IF ~s.known THEN Unknown
        ELSE IF ~s.result.found THEN Known(not_found)
        ELSE AloneAnswer(pr(s.result.context))

\* process_query(q) run alone, with the index and the LLM answering as they
\* have answered.
AloneRun(q) ==
    LET uq == strip(q)
        direct(context) == DirectAnswerPrompt(uq, context)
        action(context) == ActionAnswerPrompt(uq, context)
        forced(context) == ForcedAnswerPrompt(uq, context)
    IN  IF uq = "" THEN Known(MsgAskQuestion)
        ELSE IF ~is_uet_related(uq) THEN Known(MsgOutOfDomain)
        ELSE IF should_search_directly(uq)
        THEN AloneSearchThen(uq, MsgNotFoundDirect, direct)
        ELSE IF ~Asked(llm_memo, DecisionPrompt(uq)) THEN Unknown
        ELSE LET out == OutcomeOf(llm_memo, DecisionPrompt(uq))
             IN  IF out.raised THEN Known(MsgApology)
                 ELSE IF Directives(out.content) # {}
                 THEN AloneSearchThen(Terms(out.content), MsgNotFoundRephrase, action)
                 ELSE IF Refuses(out.content)
                 THEN AloneSearchThen(uq, out.content, forced)
                 ELSE Known(out.content)

\* The dedup set, the chunk list and the scores of invocation p.
Private(p) == << seen_content[p], all_docs[p], scored_docs[p], top_docs[p] >>

\* C17: invocations that run at the same time are independent: a step
\* changes the dedup set, the chunk list and the scores of one invocation at
\* most, and an invocation returns what process_query returns for its query
\* when it runs alone, the index and the LLM answering as they do.
C17_Independent ==
    /\ [](\A p \in Procs :
            pc[p] = "done" =>
               LET alone == AloneRun(raw_query[p])
               IN  alone.known /\ answer[p] = alone.text)
    /\ [][\A p, r \in Procs :
            (p # r /\ Private(p)' # Private(p)) => Private(r)' = Private(r)]_vars

\* Both invocations have ended, on different queries; each kept the chunks
\* the other kept, of which the other had seen the first 100 characters, and
\* each returned its own answer of the LLM.
C17_Witness ==
    /\ \A p \in Procs :
         /\ pc[p] = "done"
         /\ search_results[p].found
         /\ Len(llm_log[p]) >= 1
         /\ ~LastRaised(llm_log[p])
    /\ raw_query[1] # raw_query[2]
    /\ all_docs[1] # << >>
    /\ all_docs[1] = all_docs[2]
    /\ answer[1] # answer[2]

\* Both invocations are in the retrieval loop, each with chunks collected.
C17_WitnessOverlap ==
    \A p \in Procs :
        pc[p] = "retrieve" /\ seen_content[p] # {} /\ all_docs[p] # << >>

=============================================================================
